---- MODULE Spec2Model ----
(***************************************************************************)
(* Verification model of two parts of the conformal decomposition code:    *)
(*   - stk::mesh::EntityCommDatabase (the entity communication database),  *)
(*   - krino::CDMesh snapshot life cycle (decompose_mesh, modify_mesh,     *)
(*     generate_nonconformal_elements, clear).                             *)
(* Each part has its own specification over the module's variables; the    *)
(* variables of the other part keep their initial values.                  *)
(***************************************************************************)
EXTENDS Integers, Sequences, FiniteSets, TLC

(***************************************************************************)
(* Bounds of the model.                                                    *)
(***************************************************************************)
MaxGhostId == 1     \* ghosting ordinals 0..MaxGhostId (0 is the sharing ghosting, 1 the aura)
MaxPairs == 3       \* cap on the number of (ghost_id, proc) pairs held by the database
NumElems == 2       \* background elements of the decomposed mesh
MaxNodes == 5       \* nodes of the snapshot whose node-creation operations are called
NumSides == 2       \* element sides followed through modify_mesh
MaxDist == 4        \* distances and displacements in prolongation are 0..MaxDist
MaxInterfaces == 2  \* active interfaces of one call of decompose

Keys == {1, 2}      \* two entity keys: the one last looked up and another one
GhostIds == 0..MaxGhostId
Procs == {0, 1}     \* two other processes
Infos == [ghost_id : GhostIds, proc : Procs]

VARIABLES
  m_comm_map,                  \* EntityCommDatabase::m_comm_map : key -> EntityComm
  m_last_lookup,               \* EntityCommDatabase::m_last_lookup : {} is end(), {k} is the node of key k
  m_comm_map_change_listener,  \* TRUE when a listener is registered (pointer not null)
  notifications,               \* calls made on the listener by the last operation, in order
  op,                          \* the last operation and its arguments
  ret,                         \* what the last operation returned (bool, or "found" for a lookup)
  view,                        \* the range returned by the last lookup (or the record's vector)
  the_new_mesh,                \* CDMesh::the_new_mesh : the current snapshot, with its old mesh inside
  bulk,                        \* the mesh database the snapshots are built on
  my_cdfem_support,            \* the CDFEM options read by the decomposition
  pc,                          \* where decompose_mesh or rebuild_after_rebalance stands
  call,                        \* the arguments of the running decompose_mesh, the database at its entry
  mesh_modified,               \* decompose_mesh's local: what modify_mesh returned
  status,                      \* what the last decompose_mesh returned (0 before any)
  last_geometry,               \* the geometry given to the previous decompose_mesh, if any
  managed_nodes,               \* CDMesh::nodes of a snapshot whose node-creation operations are called
  midside_map,                 \* CDMesh::my_midside_node_map of that snapshot
  created,                     \* every request made so far with the node it returned
  returned,                    \* the request just served and the node returned for it
  sides,                       \* the element sides of the mesh database: touching parts, entity, interface part
  side_requests,               \* modify_mesh's local side_requests: the sides asked for
  modify_pc,                   \* where the modifying branch of modify_mesh stands
  modification_log,            \* what modify_mesh has done so far, each with the open transaction
  automatic_aura,              \* stk_bulk().is_automatic_aura_on()
  assertions,                  \* whether the build evaluates ParallelThrowAssert
  check_result,                \* what check_element_side_parts() came to in the last modify_mesh
  prolong_input,               \* what prolongation() works on: ranks, old mesh facets and nodes, the new node
  prolong_pc,                  \* where prolongation() stands
  proc_padding,                \* prolongation()'s local proc_padding, in halves of the unit of length
  my_missing_remote_prolong_facets,  \* CDMesh::my_missing_remote_prolong_facets
  is_prolonged,                \* node->is_prolonged() of the new node
  prolong_source,              \* what find_prolongation_node returned in this round
  failure_logged,              \* "Failed to find prolongation node" was written to the log
  node_entity,                 \* the entity of the new node that prolongation() works on, 0 while it has none
  sync_input,                  \* what a pass over an interface works on: the kind of value, ranks' nodes and elements
  sync_pc,                     \* where determine_node_signs / determine_node_scores stands
  node_value,                  \* my_node_sign or my_node_score of each node on each rank
  processed,                   \* the elements whose determine_node_signs / determine_node_scores has run
  pending_local,               \* entries of sync_node_sign_or_score_on_local_constrained_nodes not yet applied
  in_flight,                   \* packed entries not yet unpacked by receive_node_sign_or_score
  write_count,                 \* how often each node's sign or score was set on each rank since it was cleared
  round_input,                \* a sparse communication round: its kind, what each rank has to send and to whom
  round_pc,                   \* where the round stands
  round_sized,                \* what was packed in the pass that sizes the send buffers
  round_sent,                 \* what was packed in the pass that fills the send buffers
  round_passes,                \* the packing passes made in the round
  edge_nodes,                  \* the ancestries of the edge nodes each rank has, in a round of hanging edge nodes
  decompose_input,            \* one call of decompose: the number of active interfaces and the elements the geometry lists as uncut
  decompose_at,               \* how many steps of the call have been made
  elem_phase_from,             \* for each element, the function that has set its phase or the phases of its sub-elements
  rank_input,                 \* one parallel call of modify_mesh: the refinement level and what each rank finds in its own elements
  rank_pc,                    \* where each rank is in the call
  reduce_inputs,              \* what the ranks that have entered the reduction is_true_on_any_proc have given to it
  rank_needed,                \* modificationIsNeeded on the ranks that have computed it
  rank_transactions,          \* the modification transactions each rank has entered
  rank_returned,               \* what modify_mesh has returned on the ranks that have returned
  side_nodes_input,           \* one call of check_element_side_parts(side_nodes): what the relations of the side nodes give
  side_nodes_pc,              \* whether the call has been made
  side_nodes_check             \* the result of the call and whether it has read sides[0]

commVars == <<m_comm_map, m_last_lookup, m_comm_map_change_listener, notifications, op, ret, view>>
meshVars == <<the_new_mesh, bulk, my_cdfem_support, pc, call, mesh_modified, status, last_geometry>>
nodeVars == <<managed_nodes, midside_map, created, returned>>
\* the state outside the database and outside the decomposition
modifyVars == <<sides, side_requests, modify_pc, modification_log, automatic_aura, assertions,
                check_result>>
prolongVars == <<prolong_input, prolong_pc, proc_padding, my_missing_remote_prolong_facets,
                 is_prolonged, prolong_source, failure_logged, node_entity>>
syncVars == <<sync_input, sync_pc, node_value, processed, pending_local, in_flight,
              write_count>>
roundVars == <<round_input, round_pc, round_sized, round_sent, round_passes, edge_nodes>>
decomposeVars == <<decompose_input, decompose_at, elem_phase_from>>
parallelVars == <<rank_input, rank_pc, reduce_inputs, rank_needed, rank_transactions, rank_returned>>
sideCheckVars == <<side_nodes_input, side_nodes_pc, side_nodes_check>>
restVars == <<nodeVars, modifyVars, prolongVars, syncVars, roundVars, decomposeVars, parallelVars, sideCheckVars>>
vars == <<commVars, meshVars, restVars>>

(***************************************************************************)
(* EntityCommInfo and EntityComm                                           *)
(***************************************************************************)
\* EntityCommInfo ordering: by ghost_id, then by proc.
InfoLess(a, b) ==
  \/ a.ghost_id < b.ghost_id
  \/ (a.ghost_id = b.ghost_id /\ a.proc < b.proc)

\* EntityCommInfo(ghost_id, proc)
EntityCommInfo(g, p) == [ghost_id |-> g, proc |-> p]

\* EntityComm() : value-initialised record
EntityComm == [isShared |-> FALSE, isGhost |-> FALSE, comm_map |-> <<>>]

\* m_comm_map.end()
EndIt == {}

\* std::lower_bound over vec[first .. last-1] (last is one past the end): binary search
RECURSIVE lower_bound_count(_, _, _, _)
lower_bound_count(vec, val, first, count) ==
  IF count <= 0 THEN first
  ELSE LET step == count \div 2
           mid  == first + step
       IN  IF InfoLess(vec[mid], val)
             THEN lower_bound_count(vec, val, mid + 1, count - (step + 1))
             ELSE lower_bound_count(vec, val, first, step)

lower_bound(vec, first, last, val) == lower_bound_count(vec, val, first, last - first)

\* vector::insert(i, val)
VecInsert(vec, i, val) ==
  [j \in 1..(Len(vec) + 1) |-> IF j < i THEN vec[j] ELSE IF j = i THEN val ELSE vec[j - 1]]

\* vector::erase(i, e) : removes vec[i .. e-1]
VecErase(vec, i, e) ==
  [j \in 1..(Len(vec) - (e - i)) |-> IF j < i THEN vec[j] ELSE vec[j + (e - i)]]

\* m_last_lookup->first == key
PointsAt(last, key) == last = {key}

\* m_last_lookup->second, read through the iterator
Second(map, last) ==
  IF last # EndIt /\ last \subseteq DOMAIN map
    THEN map[CHOOSE k \in last : TRUE]
    ELSE EntityComm

\* assignment through m_last_lookup->second
SetSecond(map, last, rec) ==
  IF last # EndIt /\ last \subseteq DOMAIN map
    THEN [x \in DOMAIN map |-> IF last = {x} THEN rec ELSE map[x]]
    ELSE map

\* m_comm_map.insert(std::make_pair(key, EntityComm()))
MapInsert(map, key) ==
  [x \in DOMAIN map \cup {key} |-> IF x \in DOMAIN map THEN map[x] ELSE EntityComm]

\* m_comm_map.erase(m_last_lookup) : the map without the node
MapErase(map, last) == [x \in DOMAIN map \ last |-> map[x]]

\* the iterators m_comm_map.erase(m_last_lookup) can return: a remaining node or end()
ErasedNext(map, last) == {EndIt} \cup {{x} : x \in DOMAIN map \ last}

\* cached_find : [found, last]
cached_find(map, last, key) ==
  IF last # EndIt /\ PointsAt(last, key)
    THEN [found |-> TRUE, last |-> last]
    ELSE IF key \in DOMAIN map
           THEN [found |-> TRUE, last |-> {key}]
           ELSE [found |-> FALSE, last |-> last]

\* result of an operation: the database after it, what it returned, what it told the listener
Result(map, last, r, v, notes) ==
  [map |-> map, last |-> last, ret |-> r, view |-> v, notes |-> notes]

removedGhost(key, g, p) == <<"removedGhost", key, g, p>>
removedKey(key) == <<"removedKey", key>>

\* insert(key)
insert_key(map, last, key) ==
  LET f == cached_find(map, last, key)
      map1 == IF f.found THEN map ELSE MapInsert(map, key)
      last1 == IF f.found THEN f.last ELSE {key}
  IN  Result(map1, last1, TRUE, Second(map1, last1).comm_map, <<>>)



\* insert(key, val) appending val at the end instead of at its lower bound
insert_info_push_back(map, last, key, val) ==
  LET r0   == insert_key(map, last, key)
      rec0 == Second(r0.map, r0.last)
      rec1 == IF val.ghost_id = 0
                THEN [rec0 EXCEPT !.isShared = TRUE]
                ELSE [rec0 EXCEPT !.isGhost = TRUE]
      comm_map == rec1.comm_map
      i == lower_bound(comm_map, 1, Len(comm_map) + 1, val)
      didInsert == (i = Len(comm_map) + 1) \/ (val # comm_map[i])
      rec2 == IF didInsert
                THEN [rec1 EXCEPT !.comm_map = Append(comm_map, val)]
                ELSE rec1
  IN  Result(SetSecond(r0.map, r0.last, rec2), r0.last, didInsert, rec2.comm_map, <<>>)

\* insert(key, val, owner) : ret is pair.second (didInsert)
insert_info(map, last, key, val) ==
  LET r0   == insert_key(map, last, key)
      rec0 == Second(r0.map, r0.last)
      rec1 == IF val.ghost_id = 0
                THEN [rec0 EXCEPT !.isShared = TRUE]
                ELSE [rec0 EXCEPT !.isGhost = TRUE]
      comm_map == rec1.comm_map
      i == lower_bound(comm_map, 1, Len(comm_map) + 1, val)
      didInsert == (i = Len(comm_map) + 1) \/ (val # comm_map[i])
      rec2 == IF didInsert
                THEN [rec1 EXCEPT !.comm_map = VecInsert(comm_map, i, val)]
                ELSE rec1
  IN  Result(SetSecond(r0.map, r0.last, rec2), r0.last, didInsert, rec2.comm_map, <<>>)


\* internal_update_shared_ghosted reading the last entry instead of the first
internal_update_shared_ghosted_back(rec, removedSharingProc) ==
  IF removedSharingProc
    THEN [rec EXCEPT !.isShared = (rec.comm_map # <<>>
                                   /\ rec.comm_map[Len(rec.comm_map)].ghost_id = 0)]
    ELSE [rec EXCEPT !.isGhost = (\E j \in 1..Len(rec.comm_map) : rec.comm_map[j].ghost_id > 0)]

\* internal_update_shared_ghosted, applied to the record m_last_lookup points at
internal_update_shared_ghosted(rec, removedSharingProc) ==
  IF removedSharingProc
    THEN [rec EXCEPT !.isShared = (rec.comm_map # <<>> /\ rec.comm_map[1].ghost_id = 0)]
    ELSE [rec EXCEPT !.isGhost = (\E j \in 1..Len(rec.comm_map) : rec.comm_map[j].ghost_id > 0)]

\* the tail shared by both erase overloads once comm_map[i .. e-1] is known to be non-empty:
\* notify removedGhost, erase the range, then delete the record or refresh its flags
erase_range_keeping_empty_record(map, last, listener, key, i, e, removedSharingProc, nxt) ==
  LET rec      == Second(map, last)
      comm_map == rec.comm_map
      ghosts   == IF listener
                    THEN [j \in 1..(e - i) |->
                            removedGhost(key, comm_map[i + j - 1].ghost_id, comm_map[i + j - 1].proc)]
                    ELSE <<>>
      vec1     == VecErase(comm_map, i, e)
  IN  IF vec1 = <<>>
        THEN Result(SetSecond(map, last, [isShared |-> FALSE, isGhost |-> FALSE, comm_map |-> vec1]),
                    last, TRUE, <<>>, ghosts)
        ELSE Result(SetSecond(map, last,
                              internal_update_shared_ghosted([rec EXCEPT !.comm_map = vec1],
                                                             removedSharingProc)),
                    last, TRUE, <<>>, ghosts)


\* the erase tail telling the listener of the first removed entry only
erase_range_first_ghost_only(map, last, listener, key, i, e, removedSharingProc, nxt) ==
  LET rec      == Second(map, last)
      comm_map == rec.comm_map
      ghosts   == IF listener
                    THEN <<removedGhost(key, comm_map[i].ghost_id, comm_map[i].proc)>>
                    ELSE <<>>
      vec1     == VecErase(comm_map, i, e)
  IN  IF vec1 = <<>>
        THEN Result(MapErase(map, last), nxt, TRUE, <<>>,
                    ghosts \o (IF listener THEN <<removedKey(key)>> ELSE <<>>))
        ELSE Result(SetSecond(map, last,
                              internal_update_shared_ghosted([rec EXCEPT !.comm_map = vec1],
                                                             removedSharingProc)),
                    last, TRUE, <<>>, ghosts)

erase_range(map, last, listener, key, i, e, removedSharingProc, nxt) ==
  LET rec      == Second(map, last)
      comm_map == rec.comm_map
      ghosts   == IF listener
                    THEN [j \in 1..(e - i) |->
                            removedGhost(key, comm_map[i + j - 1].ghost_id, comm_map[i + j - 1].proc)]
                    ELSE <<>>
      vec1     == VecErase(comm_map, i, e)
  IN  IF vec1 = <<>>
        THEN Result(MapErase(map, last), nxt, TRUE, <<>>,
                    ghosts \o (IF listener THEN <<removedKey(key)>> ELSE <<>>))
        ELSE Result(SetSecond(map, last,
                              internal_update_shared_ghosted([rec EXCEPT !.comm_map = vec1],
                                                             removedSharingProc)),
                    last, TRUE, <<>>, ghosts)

\* erase(key, val)
erase_info(map, last, listener, key, val, nxt) ==
  LET f == cached_find(map, last, key)
  IN  IF ~f.found THEN Result(map, f.last, FALSE, <<>>, <<>>)
      ELSE LET comm_map == Second(map, f.last).comm_map
               i == lower_bound(comm_map, 1, Len(comm_map) + 1, val)
               result == (i # Len(comm_map) + 1) /\ (val = comm_map[i])
           IN  IF result
                 THEN erase_range(map, f.last, listener, key, i, i + 1, val.ghost_id = 0, nxt)
                 ELSE Result(map, f.last, FALSE, <<>>, <<>>)

\* a variant of erase(key, ghost) that erases from the first entry of the ghosting
\* to the end of the vector
erase_ghosting_to_end(map, last, listener, key, g, nxt) ==
  LET f == cached_find(map, last, key)
  IN  IF ~f.found THEN Result(map, f.last, FALSE, <<>>, <<>>)
      ELSE LET comm_map == Second(map, f.last).comm_map
               s_begin == EntityCommInfo(g, 0)
               i == lower_bound(comm_map, 1, Len(comm_map) + 1, s_begin)
               e == Len(comm_map) + 1
               result == i # e
           IN  IF result
                 THEN erase_range(map, f.last, listener, key, i, e, g = 0, nxt)
                 ELSE Result(map, f.last, FALSE, <<>>, <<>>)

\* erase(key, ghost) : ghost.ordinal() = g
erase_ghosting(map, last, listener, key, g, nxt) ==
  LET f == cached_find(map, last, key)
  IN  IF ~f.found THEN Result(map, f.last, FALSE, <<>>, <<>>)
      ELSE LET comm_map == Second(map, f.last).comm_map
               s_begin == EntityCommInfo(g, 0)
               s_end   == EntityCommInfo(g + 1, 0)
               i == lower_bound(comm_map, 1, Len(comm_map) + 1, s_begin)
               e == lower_bound(comm_map, i, Len(comm_map) + 1, s_end)
               result == i # e
           IN  IF result
                 THEN erase_range(map, f.last, listener, key, i, e, g = 0, nxt)
                 ELSE Result(map, f.last, FALSE, <<>>, <<>>)

\* while ( j != comm_map.end() && j->ghost_id == 0 ) { ++j ; }
RECURSIVE skip_shared(_, _)
skip_shared(comm_map, j) ==
  IF j # Len(comm_map) + 1 /\ comm_map[j].ghost_id = 0
    THEN skip_shared(comm_map, j + 1)
    ELSE j

\* comm_clear_ghosting(key)
comm_clear_ghosting(map, last, listener, key, nxt) ==
  LET f == cached_find(map, last, key)
  IN  IF ~f.found THEN Result(map, f.last, FALSE, <<>>, <<>>)
      ELSE LET rec == [Second(map, f.last) EXCEPT !.isGhost = FALSE]
               comm_map == rec.comm_map
               j == skip_shared(comm_map, 1)
               did_clear_ghosting == (j # Len(comm_map) + 1)
               vec1 == IF did_clear_ghosting
                         THEN VecErase(comm_map, j, Len(comm_map) + 1)
                         ELSE comm_map
           IN  IF vec1 = <<>>
                 THEN Result(MapErase(map, f.last), nxt, did_clear_ghosting, <<>>,
                             IF listener THEN <<removedKey(key)>> ELSE <<>>)
                 ELSE Result(SetSecond(map, f.last, [rec EXCEPT !.comm_map = vec1]),
                             f.last, did_clear_ghosting, <<>>, <<>>)

\* comm_clear(key)
comm_clear_keeping_cache(map, last, listener, key, nxt) ==
  LET f == cached_find(map, last, key)
  IN  IF ~f.found THEN Result(map, f.last, FALSE, <<>>, <<>>)
      ELSE Result(MapErase(map, f.last), f.last, TRUE, <<>>,
                  IF listener THEN <<removedKey(key)>> ELSE <<>>)

comm_clear(map, last, listener, key, nxt) ==
  LET f == cached_find(map, last, key)
  IN  IF ~f.found THEN Result(map, f.last, FALSE, <<>>, <<>>)
      ELSE Result(MapErase(map, f.last), nxt, TRUE, <<>>,
                  IF listener THEN <<removedKey(key)>> ELSE <<>>)

\* the sub-sequence vec[i .. e-1] : PairIterEntityComm(i, e)
PairIterEntityComm(vec, i, e) == [j \in 1..(e - i) |-> vec[i + j - 1]]

\* shared_comm_info_range : the leading entries of the sharing ghosting (ghost_id 0)
shared_comm_info_range(comm_map) ==
  PairIterEntityComm(comm_map, 1, lower_bound(comm_map, 1, Len(comm_map) + 1, EntityCommInfo(1, 0)))


\* comm(key) finding the record with insert(key), as map::operator[] would
comm_creating_record(map, last, key) ==
  LET r0 == insert_key(map, last, key)
  IN  Result(r0.map, r0.last, TRUE, Second(r0.map, r0.last).comm_map, <<>>)

\* comm(key)
comm(map, last, key) ==
  LET f == cached_find(map, last, key)
  IN  IF ~f.found THEN Result(map, f.last, FALSE, <<>>, <<>>)
      ELSE Result(map, f.last, TRUE, Second(map, f.last).comm_map, <<>>)

\* comm(key, sub) : sub.ordinal() = g
comm_ghosting(map, last, key, g) ==
  LET f == cached_find(map, last, key)
  IN  IF ~f.found THEN Result(map, f.last, FALSE, <<>>, <<>>)
      ELSE LET comm_map == Second(map, f.last).comm_map
               i == lower_bound(comm_map, 1, Len(comm_map) + 1, EntityCommInfo(g, 0))
               e == lower_bound(comm_map, i, Len(comm_map) + 1, EntityCommInfo(g + 1, 0))
           IN  Result(map, f.last, TRUE, PairIterEntityComm(comm_map, i, e), <<>>)

\* shared_comm_info(key)
shared_comm_info(map, last, key) ==
  LET f == cached_find(map, last, key)
  IN  IF ~f.found THEN Result(map, f.last, FALSE, <<>>, <<>>)
      ELSE Result(map, f.last, TRUE, shared_comm_info_range(Second(map, f.last).comm_map), <<>>)

\* entity_comm(key) : ret is "pointer not NULL"
entity_comm(map, last, key) ==
  LET f == cached_find(map, last, key)
  IN  IF ~f.found THEN Result(map, f.last, FALSE, <<>>, <<>>)
      ELSE Result(map, f.last, TRUE, Second(map, f.last).comm_map, <<>>)

(***************************************************************************)
(* Actions of the database: one per public operation                       *)
(***************************************************************************)
RECURSIVE SumLen(_, _)
SumLen(map, ks) ==
  IF ks = {} THEN 0
  ELSE LET k == CHOOSE x \in ks : TRUE IN Len(map[k].comm_map) + SumLen(map, ks \ {k})

TotalPairs(map) == SumLen(map, DOMAIN map)

\* what m_comm_map.erase(m_last_lookup) can return when an operation on key reaches it;
\* r0 is the operation's result for one such iterator: the choice matters only when a
\* node is erased
NextAfter(map, last, key, r0) ==
  IF DOMAIN r0.map = DOMAIN map
    THEN {EndIt}
    ELSE ErasedNext(map, cached_find(map, last, key).last)

Op(name, key, g, p) == [name |-> name, key |-> key, ghost_id |-> g, proc |-> p]

Apply(r, o) ==
  /\ m_comm_map' = r.map
  /\ m_last_lookup' = r.last
  /\ ret' = r.ret
  /\ view' = r.view
  /\ notifications' = r.notes
  /\ op' = o
  /\ UNCHANGED m_comm_map_change_listener
  /\ UNCHANGED <<meshVars, restVars>>

InsertKey ==
  \E k \in Keys :
    Apply(insert_key(m_comm_map, m_last_lookup, k), Op("insert_key", k, 0, 0))

InsertInfo ==
  \E k \in Keys, v \in Infos :
    /\ TotalPairs(m_comm_map) < MaxPairs
    /\ Apply(insert_info(m_comm_map, m_last_lookup, k, v), Op("insert_info", k, v.ghost_id, v.proc))

EraseInfo ==
  \E k \in Keys, v \in Infos :
    \E nxt \in NextAfter(m_comm_map, m_last_lookup, k,
                          erase_info(m_comm_map, m_last_lookup, m_comm_map_change_listener, k, v, EndIt)) :
      Apply(erase_info(m_comm_map, m_last_lookup, m_comm_map_change_listener, k, v, nxt),
            Op("erase_info", k, v.ghost_id, v.proc))

EraseGhosting ==
  \E k \in Keys, g \in GhostIds :
    \E nxt \in NextAfter(m_comm_map, m_last_lookup, k,
                          erase_ghosting(m_comm_map, m_last_lookup, m_comm_map_change_listener, k, g, EndIt)) :
      Apply(erase_ghosting(m_comm_map, m_last_lookup, m_comm_map_change_listener, k, g, nxt),
            Op("erase_ghosting", k, g, 0))

CommClearGhosting ==
  \E k \in Keys :
    \E nxt \in NextAfter(m_comm_map, m_last_lookup, k,
                          comm_clear_ghosting(m_comm_map, m_last_lookup, m_comm_map_change_listener, k, EndIt)) :
      Apply(comm_clear_ghosting(m_comm_map, m_last_lookup, m_comm_map_change_listener, k, nxt),
            Op("comm_clear_ghosting", k, 0, 0))

CommClear ==
  \E k \in Keys :
    \E nxt \in NextAfter(m_comm_map, m_last_lookup, k,
                          comm_clear(m_comm_map, m_last_lookup, m_comm_map_change_listener, k, EndIt)) :
      Apply(comm_clear(m_comm_map, m_last_lookup, m_comm_map_change_listener, k, nxt),
            Op("comm_clear", k, 0, 0))

Comm ==
  \E k \in Keys :
    Apply(comm(m_comm_map, m_last_lookup, k), Op("comm", k, 0, 0))

CommGhosting ==
  \E k \in Keys, g \in GhostIds :
    Apply(comm_ghosting(m_comm_map, m_last_lookup, k, g), Op("comm_ghosting", k, g, 0))

SharedCommInfo ==
  \E k \in Keys :
    Apply(shared_comm_info(m_comm_map, m_last_lookup, k), Op("shared_comm_info", k, 0, 0))

EntityCommLookup ==
  \E k \in Keys :
    Apply(entity_comm(m_comm_map, m_last_lookup, k), Op("entity_comm", k, 0, 0))

NextComm ==
  \/ InsertKey
  \/ InsertInfo
  \/ EraseInfo
  \/ EraseGhosting
  \/ CommClearGhosting
  \/ CommClear
  \/ Comm
  \/ CommGhosting
  \/ SharedCommInfo
  \/ EntityCommLookup

(***************************************************************************)
(* krino::CDMesh : the snapshot of one decomposition pass                  *)
(*                                                                         *)
(* The background mesh is a row of NumElems elements; element e lies       *)
(* between the mesh nodes e and e+1 and has the single edge (e, e+1).      *)
(* An interface geometry is the position g of one interface: mesh nodes    *)
(* 1..g are on its negative side, the others on its positive side, so      *)
(* element g (when 1 <= g <= NumElems) is cut and every other element is   *)
(* uncut.  One process.  Entity ids and snapshot identities are names:     *)
(* any fresh one behaves alike; a new child entity takes the id reserved   *)
(* for its ancestry when that id is free and the least free id above the   *)
(* reserved ones otherwise, a new snapshot the least identity not alive.   *)
(***************************************************************************)
Elems == 1..NumElems
MeshNodeIds == 1..(NumElems + 1)
Geometries == 0..(NumElems + 1)
StepCounts == {0, 1}           \* step_count arguments
RefinementLevels == {0, 1}     \* get_interface_maximum_refinement_level(): zero or positive

\* the status bits returned by decompose_mesh
COORDINATES_MAY_BE_MODIFIED == 1
MESH_MODIFIED == 2

\* a | b on non-negative integers
RECURSIVE BitOr(_, _)
BitOr(a, b) ==
  IF a = 0 THEN b
  ELSE IF b = 0 THEN a
  ELSE (IF (a % 2) + (b % 2) > 0 THEN 1 ELSE 0) + 2 * BitOr(a \div 2, b \div 2)

HasBit(s, bit) == (s \div bit) % 2 = 1

\* the elements of a set of integers in increasing order
RECURSIVE SortedSeq(_)
SortedSeq(S) ==
  IF S = {} THEN <<>>
  ELSE LET m == CHOOSE x \in S : \A y \in S : x <= y IN <<m>> \o SortedSeq(S \ {m})

Range(s) == {s[i] : i \in 1..Len(s)}

\* the least id above base that is not in used
LeastUnused(used, base) ==
  CHOOSE i \in (base + 1)..(base + Cardinality(used) + 1) :
    /\ i \notin used
    /\ \A j \in (base + 1)..(i - 1) : j \in used

(***************************************************************************)
(* Sub-element nodes, named by their ancestry                              *)
(***************************************************************************)
MeshNodeKey(n) == <<"mesh", n, n>>
EdgeNodeKey(e) == <<"edge", e, e + 1>>
\* the mid-side node of the sub-element on side 1 (left) or 2 (right) of the cut edge of e
MidSideNodeKey(e, side) == <<"mid", e, side>>

MidSideParents(key) ==
  IF key[3] = 1 THEN <<MeshNodeKey(key[2]), EdgeNodeKey(key[2])>>
               ELSE <<EdgeNodeKey(key[2]), MeshNodeKey(key[2] + 1)>>

\* std::shared_ptr<CDMesh>() : a shared pointer is a sequence of at most one snapshot
NullMesh == <<>>

\* CDMesh::CDMesh(mesh, old_mesh)
\* a variant of the constructor that leaves the old mesh its own old mesh
CDMesh_keeping_older(id, old_mesh) ==
  [id |-> id,
   nodes |-> <<>>,
   elements |-> <<>>,
   my_old_mesh |-> old_mesh,
   my_stash_step_count |-> -1,
   mesh_node_map |-> {},
   child_elements |-> <<>>,
   my_prolong_node_map |-> {},
   my_prolong_element_map |-> {},
   my_midside_node_map |-> {}]

CDMesh(id, old_mesh) ==
  [id |-> id,
   nodes |-> <<>>,
   elements |-> <<>>,
   my_old_mesh |-> IF old_mesh = NullMesh THEN NullMesh
                   ELSE <<[old_mesh[1] EXCEPT !.my_old_mesh = NullMesh]>>,
   my_stash_step_count |-> -1,
   mesh_node_map |-> {},
   child_elements |-> <<>>,
   my_prolong_node_map |-> {},
   my_prolong_element_map |-> {},
   my_midside_node_map |-> {}]

\* the snapshots alive behind a shared pointer: the snapshot and its old mesh
LiveMeshIds(ptr) ==
  IF ptr = NullMesh THEN {}
  ELSE {ptr[1].id} \cup (IF ptr[1].my_old_mesh = NullMesh THEN {} ELSE {ptr[1].my_old_mesh[1].id})

\* std::make_shared<CDMesh> : a new object, distinct from every live one
NewMeshId(live) == LeastUnused(live, 0)

FindNode(nodes, key) ==
  LET S == {i \in 1..Len(nodes) : nodes[i].key = key}
  IN  IF S = {} THEN 0 ELSE CHOOSE i \in S : TRUE

\* node->entity() of the node with this ancestry; 0 is the invalid entity
NodeEntity(mesh, key) ==
  LET i == FindNode(mesh.nodes, key) IN IF i = 0 THEN 0 ELSE mesh.nodes[i].entity

\* CDMesh::add_managed_node
add_managed_node(mesh, key, entity) ==
  [mesh EXCEPT !.nodes = Append(@, [key |-> key, entity |-> entity])]

\* CDMesh::create_mesh_node with add_managed_mesh_node
create_mesh_node(mesh, n) ==
  IF n \in mesh.mesh_node_map THEN mesh
  ELSE [add_managed_node(mesh, MeshNodeKey(n), n) EXCEPT !.mesh_node_map = @ \cup {n}]

\* CDMesh::create_edge_node : the common child of the parents if there is one
create_edge_node(mesh, key) ==
  IF FindNode(mesh.nodes, key) # 0 THEN mesh ELSE add_managed_node(mesh, key, 0)

\* node->set_entity
set_entity(mesh, key, entity) ==
  [mesh EXCEPT !.nodes = [i \in 1..Len(@) |->
     IF @[i].key = key THEN [@[i] EXCEPT !.entity = entity] ELSE @[i]]]

\* CDMesh::create_midside_node.  my_midside_node_map is keyed by the addresses of
\* the parents.  An entry whose nodes were destroyed (live = FALSE) is found only
\* when the new parents were allocated at the addresses of the old ones (reuse);
\* the node it yields was destroyed, so nothing is added to nodes and the
\* sub-element built on it holds a pointer to a destroyed node.
create_midside_node(mesh, key, entity, reuse) ==
  LET parents == MidSideParents(key)
      live  == {en \in mesh.my_midside_node_map : en.parents = parents /\ en.live}
      stale == {en \in mesh.my_midside_node_map : en.parents = parents /\ ~en.live}
  IN  IF live # {} THEN mesh
      ELSE IF reuse /\ stale # {} THEN mesh
      ELSE [add_managed_node(mesh, key, entity) EXCEPT
              !.my_midside_node_map =
                 @ \cup {[parents |-> parents, node |-> key, live |-> TRUE]}]

\* Mesh_Element(mesh, elem) without its nodes
Mesh_Element(e) ==
  [entityId |-> e, phase |-> 0, subelements |-> <<>>, prolongation_data |-> FALSE]

SubElement(nodes, phase, entityId) ==
  [nodes |-> nodes, phase |-> phase, entityId |-> entityId, prolongation_data |-> FALSE]

have_subelements(elem) == elem.subelements # <<>>

RECURSIVE create_mesh_nodes(_, _)
create_mesh_nodes(mesh, n) ==
  IF n > NumElems + 1 THEN mesh ELSE create_mesh_nodes(create_mesh_node(mesh, n), n + 1)

\* CDMesh::generate_nonconformal_elements : requires an empty snapshot (it throws
\* otherwise, and the snapshot is left as it was)
\* the two ParallelThrowRequire of generate_nonconformal_elements: the call aborts
\* when the snapshot has a node or an element
generate_nonconformal_elements_aborts(mesh) == mesh.nodes # <<>> \/ mesh.elements # <<>>

generate_nonconformal_elements(mesh) ==
  IF generate_nonconformal_elements_aborts(mesh) THEN mesh
  ELSE create_mesh_nodes([mesh EXCEPT !.elements = [e \in Elems |-> Mesh_Element(e)]], 1)

\* CDMesh::clear_prolongation_data
clear_prolongation_data(mesh) ==
  [mesh EXCEPT !.my_prolong_node_map = {}, !.my_prolong_element_map = {}]

\* the entries of my_midside_node_map once the nodes they point to are destroyed:
\* the entries stay, what they point to is gone
Destroyed(mesh) == {[en EXCEPT !.live = FALSE] : en \in mesh.my_midside_node_map}

\* CDMesh::clear
\* a variant of clear() that leaves the nodes and the elements
clear_keeping_nodes_and_elements(mesh) ==
  [clear_prolongation_data(mesh) EXCEPT
     !.mesh_node_map = {}, !.child_elements = <<>>, !.my_midside_node_map = Destroyed(mesh)]

clear(mesh) ==
  [clear_prolongation_data(mesh) EXCEPT
     !.nodes = <<>>, !.elements = <<>>, !.mesh_node_map = {}, !.child_elements = <<>>,
     !.my_midside_node_map = Destroyed(mesh)]

(***************************************************************************)
(* Decomposition of the elements by the interface                          *)
(***************************************************************************)
NodeSign(g, n) == IF n <= g THEN -1 ELSE 1

SubElementNodes(e, side, quadratic) ==
  (IF side = 1 THEN <<MeshNodeKey(e), EdgeNodeKey(e)>> ELSE <<EdgeNodeKey(e), MeshNodeKey(e + 1)>>)
    \o (IF quadratic THEN <<MidSideNodeKey(e, side)>> ELSE <<>>)

\* InterfaceGeometry::get_phase_for_uncut_elements : the elements all of whose
\* nodes are on one side, each with the phase of that side
get_phase_for_uncut_elements(g) ==
  [e \in {x \in Elems : NodeSign(g, x) = NodeSign(g, x + 1)} |-> NodeSign(g, e)]

\* CDMesh::set_phase_of_uncut_elements, one entry: the element, when the mesh has
\* it, is given the phase of the entry
set_phase_of_uncut_element(mesh, e, phase) ==
  IF e <= Len(mesh.elements) THEN [mesh EXCEPT !.elements[e].phase = phase] ELSE mesh

\* one element of set_phase_of_uncut_elements, triangulate and decompose: an uncut
\* element gets its phase; a cut one gets the node on its edge and one sub-element
\* on each side of it, with a mid-side node each when the topology is quadratic
decompose_element(mesh, g, e, quadratic) ==
  IF NodeSign(g, e) = NodeSign(g, e + 1)
    THEN set_phase_of_uncut_element(mesh, e, get_phase_for_uncut_elements(g)[e])
    ELSE LET m1 == create_edge_node(mesh, EdgeNodeKey(e))
             m2 == IF quadratic
                     THEN create_midside_node(
                            create_midside_node(m1, MidSideNodeKey(e, 1), 0, FALSE),
                            MidSideNodeKey(e, 2), 0, FALSE)
                     ELSE m1
         IN  [m2 EXCEPT !.elements[e].subelements =
                <<SubElement(SubElementNodes(e, 1, quadratic), NodeSign(g, e), 0),
                  SubElement(SubElementNodes(e, 2, quadratic), NodeSign(g, e + 1), 0)>>]

RECURSIVE decompose_from(_, _, _, _)
decompose_from(mesh, g, e, quadratic) ==
  IF e > NumElems THEN mesh
  ELSE decompose_from(decompose_element(mesh, g, e, quadratic), g, e + 1, quadratic)

\* CDMesh::decompose over all elements
decompose(mesh, g, quadratic) == decompose_from(mesh, g, 1, quadratic)

(***************************************************************************)
(* The mesh database (stk::mesh::BulkData) as the snapshot sees it         *)
(*   io_part[e]  : the io part of background element e: 0 is the           *)
(*                 nonconformal (undecomposed) part, -1 / 1 the conformal   *)
(*                 part of that phase                                       *)
(*   parent[e]   : e is in the parent part (and then not in the active one) *)
(*   nodes       : the child nodes; parents holds the parent node ids of an *)
(*                 edge node and is empty for a higher-order node           *)
(*   elems       : the child elements, with their nodes in order            *)
(***************************************************************************)
BulkData(quadratic, element_fields) ==
  [quadratic |-> quadratic,
   element_fields |-> element_fields,
   io_part |-> [e \in Elems |-> 0],
   parent |-> [e \in Elems |-> FALSE],
   nodes |-> {},
   elems |-> {}]

\* stk_bulk().is_valid(node)
is_valid_node(bulk_, id) == id \in MeshNodeIds \/ \E n \in bulk_.nodes : n.id = id

\* stk::mesh::get_entities_through_relations : the elements attached to all the nodes
get_entities_through_relations(bulk_, node_ids) ==
  {c.id : c \in {x \in bulk_.elems : node_ids \subseteq Range(x.nodes)}}
    \cup {e \in Elems : node_ids \subseteq {e, e + 1}}

ChildOf(bulk_, id) == CHOOSE c \in bulk_.elems : c.id = id

\* CDMesh::elem_io_part_changed for a mesh element and for a sub-element
elem_io_part_changed(bulk_, elem) ==
  IF elem.entityId \in Elems
    THEN bulk_.io_part[elem.entityId] # elem.phase \/ bulk_.parent[elem.entityId]
    ELSE ChildOf(bulk_, elem.entityId).io_part # elem.phase

\* EntityIdPool: an id no entity has.  The ids reserved for the child node of an
\* ancestry and for the j-th child element of e lie above the ids of the mesh
ReservedNodeId(key) ==
  (NumElems + 1) + 3 * (key[2] - 1) + (IF key[1] = "edge" THEN 1 ELSE 1 + key[3])
MaxReservedNodeId == (NumElems + 1) + 3 * NumElems
ReservedElementId(e, j) == NumElems + 2 * (e - 1) + j
MaxReservedElementId == NumElems + 2 * NumElems
NewEntityId(used, reserved, base) ==
  IF reserved \notin used THEN reserved ELSE LeastUnused(used, base)

\* the node and element ids a new entity must differ from
UsedNodeIds(mesh, bulk_) ==
  {n.id : n \in bulk_.nodes}
    \cup {mesh.nodes[i].entity : i \in 1..Len(mesh.nodes)}
    \cup (IF mesh.my_old_mesh = NullMesh THEN {}
          ELSE {mesh.my_old_mesh[1].nodes[i].entity : i \in 1..Len(mesh.my_old_mesh[1].nodes)})

SubElementIds(mesh) ==
  UNION {{mesh.elements[e].subelements[j].entityId : j \in 1..Len(mesh.elements[e].subelements)} :
           e \in 1..Len(mesh.elements)}

UsedElementIds(mesh, bulk_) ==
  {c.id : c \in bulk_.elems} \cup SubElementIds(mesh)
    \cup (IF mesh.my_old_mesh = NullMesh THEN {} ELSE SubElementIds(mesh.my_old_mesh[1]))

(***************************************************************************)
(* Stashing field data on the old mesh                                     *)
(***************************************************************************)
\* fill_nodes_of_elements_with_subelements_or_changed_phase
nodes_of_elements_with_subelements_or_changed_phase(newMeshElements, oldMeshElements) ==
  UNION {{e, e + 1} :
           e \in {x \in 1..Len(newMeshElements) :
                    \/ have_subelements(newMeshElements[x])
                    \/ x \notin 1..Len(oldMeshElements)
                    \/ newMeshElements[x].phase # oldMeshElements[x].phase}}

\* CDMesh::stash_nodal_field_data : the ids that get a ProlongationNodeData
stash_nodal_field_data(mesh, new_mesh, bulk_) ==
  [mesh EXCEPT !.my_prolong_node_map =
     @ \cup UNION {Range(c.nodes) : c \in bulk_.elems}
       \cup nodes_of_elements_with_subelements_or_changed_phase(new_mesh.elements, mesh.elements)]

\* CDMesh::stash_elemental_field_data : every element and sub-element of the
\* snapshot gets its ProlongationElementData (set_prolongation_data)
stash_elemental_field_data(mesh, bulk_) ==
  IF ~bulk_.element_fields THEN mesh
  ELSE LET stashed(elem) ==
             [elem EXCEPT
                !.subelements = [j \in 1..Len(@) |-> [@[j] EXCEPT !.prolongation_data = TRUE]],
                !.prolongation_data = IF Len(elem.subelements) = 1 THEN @ ELSE TRUE]
       IN  [mesh EXCEPT
              !.my_prolong_element_map =
                 @ \cup SubElementIds(mesh)
                   \cup {mesh.elements[e].entityId :
                           e \in {x \in 1..Len(mesh.elements) :
                                    Len(mesh.elements[x].subelements) # 1}},
              !.elements = [e \in 1..Len(@) |-> stashed(@[e])]]

\* a variant of stash_field_data that empties the snapshot before stashing
stash_field_data_after_clear(mesh, step_count, new_mesh, bulk_) ==
  stash_nodal_field_data([clear(mesh) EXCEPT !.my_stash_step_count = step_count], new_mesh, bulk_)

\* CDMesh::stash_field_data
stash_field_data(mesh, step_count, new_mesh, bulk_) ==
  stash_elemental_field_data(
    stash_nodal_field_data(
      clear_prolongation_data([mesh EXCEPT !.my_stash_step_count = step_count]),
      new_mesh, bulk_),
    bulk_)

(***************************************************************************)
(* Rebuilding the sub-elements of a snapshot from the mesh database        *)
(***************************************************************************)
\* find_or_build_subelement_edge_node : the node of this id, built from the parent
\* ids stored on the child node when the snapshot does not have it yet
find_or_build_subelement_edge_node(mesh, bulk_, id) ==
  IF \E i \in 1..Len(mesh.nodes) : mesh.nodes[i].entity = id THEN mesh
  ELSE LET n == CHOOSE x \in bulk_.nodes : x.id = id
           key == EdgeNodeKey(n.parents[1])
       IN  set_entity(create_edge_node(mesh, key), key, id)

KeyOfEntity(mesh, id) ==
  mesh.nodes[CHOOSE i \in 1..Len(mesh.nodes) : mesh.nodes[i].entity = id].key

\* the body of the loop of restore_subelements for one child element
restore_subelement(mesh, bulk_, c, reuse) ==
  LET m1 == find_or_build_subelement_edge_node(mesh, bulk_, c.nodes[1])
      m2 == find_or_build_subelement_edge_node(m1, bulk_, c.nodes[2])
      k1 == KeyOfEntity(m2, c.nodes[1])
      k2 == KeyOfEntity(m2, c.nodes[2])
      side == IF k1[1] = "mesh" THEN 1 ELSE 2
      mid == MidSideNodeKey(c.parent, side)
      \* find_or_build_midside_nodes
      m3 == IF bulk_.quadratic THEN create_midside_node(m2, mid, c.nodes[3], reuse) ELSE m2
      subelem == SubElement(<<k1, k2>> \o (IF bulk_.quadratic THEN <<mid>> ELSE <<>>), 0, c.id)
  IN  [m3 EXCEPT !.elements[c.parent].subelements = Append(@, subelem)]

RECURSIVE restore_from(_, _, _, _)
restore_from(mesh, bulk_, ids, reuse) ==
  IF ids = <<>> THEN mesh
  ELSE restore_from(restore_subelement(mesh, bulk_, ChildOf(bulk_, Head(ids)), reuse),
                    bulk_, Tail(ids), reuse)

\* CDMesh::restore_subelements
restore_subelements(mesh, bulk_, reuse) ==
  restore_from(mesh, bulk_, SortedSeq({c.id : c \in bulk_.elems}), reuse)

\* whether restoring this snapshot meets an entry of my_midside_node_map whose
\* nodes were destroyed
HasStaleEntries(mesh) == \E en \in mesh.my_midside_node_map : ~en.live

\* the nodes a sub-element refers to that the snapshot no longer owns
DanglingNodes(mesh) ==
  {k \in UNION {UNION {Range(mesh.elements[e].subelements[j].nodes) :
                         j \in 1..Len(mesh.elements[e].subelements)} :
                  e \in 1..Len(mesh.elements)} : FindNode(mesh.nodes, k) = 0}

(***************************************************************************)
(* modify_mesh and what it calls                                           *)
(***************************************************************************)
\* node->find_node_with_common_ancestry(old_mesh)->entity(), 0 when there is no
\* such node: a mesh node through mesh_node_map, an edge node as the common child
\* of its parents, a mid-side node through my_midside_node_map
find_node_with_common_ancestry(old_mesh, key) ==
  IF key[1] = "mesh"
    THEN IF key[2] \in old_mesh.mesh_node_map THEN NodeEntity(old_mesh, key) ELSE 0
  ELSE IF key[1] = "edge" THEN NodeEntity(old_mesh, key)
  ELSE IF \E en \in old_mesh.my_midside_node_map : en.node = key /\ en.live
    THEN NodeEntity(old_mesh, key)
  ELSE 0

\* a variant of set_entities_for_identical_nodes that reuses no node of the old mesh
set_entities_for_identical_nodes_none(mesh, bulk_) == mesh

\* CDMesh::set_entities_for_identical_nodes
set_entities_for_identical_nodes(mesh, bulk_) ==
  IF mesh.my_old_mesh = NullMesh THEN mesh
  ELSE [mesh EXCEPT !.nodes = [i \in 1..Len(@) |->
          IF is_valid_node(bulk_, @[i].entity) THEN @[i]
          ELSE LET old_node_entity ==
                     find_node_with_common_ancestry(mesh.my_old_mesh[1], @[i].key)
               IN  IF old_node_entity # 0 /\ is_valid_node(bulk_, old_node_entity)
                     THEN [@[i] EXCEPT !.entity = old_node_entity]
                     ELSE @[i]]]

\* the existing element built on all the nodes of a sub-element, if all are valid
existing_elems(mesh, bulk_, subelem) ==
  LET ents == {NodeEntity(mesh, subelem.nodes[i]) : i \in 1..Len(subelem.nodes)}
  IN  IF \A id \in ents : is_valid_node(bulk_, id)
        THEN get_entities_through_relations(bulk_, ents)
        ELSE {}

\* CDMesh::set_entities_for_existing_child_elements : the snapshot with the
\* entities set, and all_element_entities_are_set_and_correct
set_entities_for_existing_child_elements(mesh, bulk_) ==
  IF mesh.my_old_mesh = NullMesh THEN [mesh |-> mesh, all |-> FALSE]
  ELSE LET withEntities ==
             [mesh EXCEPT !.elements = [e \in 1..Len(@) |->
                [@[e] EXCEPT !.subelements = [j \in 1..Len(@) |->
                   LET found == existing_elems(mesh, bulk_, @[j])
                   IN  IF found = {} THEN @[j]
                       ELSE [@[j] EXCEPT !.entityId = CHOOSE x \in found : TRUE]]]]]
           correct(elem) ==
             IF have_subelements(elem)
               THEN \A j \in 1..Len(elem.subelements) :
                      /\ existing_elems(mesh, bulk_, elem.subelements[j]) # {}
                      /\ ~elem_io_part_changed(bulk_, elem.subelements[j])
               ELSE ~elem_io_part_changed(bulk_, elem)
       IN  [mesh |-> withEntities,
            all |-> \A e \in 1..Len(withEntities.elements) : correct(withEntities.elements[e])]

\* ElementObj::is_less order of the sub-elements: their entity ids, sorted
RECURSIVE SortedInsert(_, _)
SortedInsert(s, x) ==
  IF s = <<>> THEN <<x>>
  ELSE IF x <= Head(s) THEN <<x>> \o s
  ELSE <<Head(s)>> \o SortedInsert(Tail(s), x)

RECURSIVE SortIds(_)
SortIds(s) == IF s = <<>> THEN <<>> ELSE SortedInsert(SortIds(Tail(s)), Head(s))

RECURSIVE AllSubElementIds(_, _)
AllSubElementIds(elements, e) ==
  IF e > Len(elements) THEN <<>>
  ELSE [j \in 1..Len(elements[e].subelements) |-> elements[e].subelements[j].entityId]
         \o AllSubElementIds(elements, e + 1)

\* CDMesh::generate_sorted_child_elements
generate_sorted_child_elements(mesh) ==
  [mesh EXCEPT !.child_elements = SortIds(AllSubElementIds(mesh.elements, 1))]

\* CDMesh::find_child_element : the snapshot (child_elements is built when it is
\* empty) and whether a sub-element has this entity id
find_child_element(mesh, id) ==
  LET m == IF mesh.child_elements = <<>> THEN generate_sorted_child_elements(mesh) ELSE mesh
  IN  [mesh |-> m, found |-> id \in Range(m.child_elements)]

\* CDMesh::get_unused_old_child_elements
get_unused_old_child_elements(mesh, bulk_) ==
  [mesh |-> [mesh EXCEPT !.child_elements = <<>>],
   unused |-> {c.id : c \in {x \in bulk_.elems : ~find_child_element(mesh, x.id).found}}]

\* the nodes of the snapshot that need an entity, in the order of nodes: the edge
\* nodes (node_requests) and then the mid-side nodes (higher_order_node_requests)
NodeRequests(mesh, bulk_, higher_order) ==
  SelectSeq([i \in 1..Len(mesh.nodes) |-> i],
            LAMBDA i : /\ ~is_valid_node(bulk_, mesh.nodes[i].entity)
                       /\ (mesh.nodes[i].key[1] = "mid") = higher_order)

\* batch_create_child_nodes for one batch of requests; an edge node stores the ids
\* of its parents (store_edge_node_parent_ids)
RECURSIVE batch_create_child_nodes(_, _, _)
batch_create_child_nodes(mesh, bulk_, requests) ==
  IF requests = <<>> THEN [mesh |-> mesh, bulk |-> bulk_]
  ELSE LET i == Head(requests)
           key == mesh.nodes[i].key
           new_id == NewEntityId(UsedNodeIds(mesh, bulk_), ReservedNodeId(key), MaxReservedNodeId)
           new_node == [id |-> new_id,
                        parents |-> IF key[1] = "edge" THEN <<key[2], key[3]>> ELSE <<>>]
       IN  batch_create_child_nodes([mesh EXCEPT !.nodes[i].entity = new_id],
                                    [bulk_ EXCEPT !.nodes = @ \cup {new_node}],
                                    Tail(requests))

\* CDMesh::create_node_entities
create_node_entities(mesh, bulk_) ==
  LET r == batch_create_child_nodes(mesh, bulk_, NodeRequests(mesh, bulk_, FALSE))
  IN  batch_create_child_nodes(r.mesh, r.bulk, NodeRequests(r.mesh, r.bulk, TRUE))

\* a variant of create_subelement_mesh_entities that declares a new element for
\* every sub-element, whether or not it has an entity already
RECURSIVE create_subelement_mesh_entities_always_new(_, _, _, _)
create_subelement_mesh_entities_always_new(mesh, bulk_, e, j) ==
  IF j > Len(mesh.elements[e].subelements) THEN [mesh |-> mesh, bulk |-> bulk_]
  ELSE LET subelem == mesh.elements[e].subelements[j]
           new_id == NewEntityId(UsedElementIds(mesh, bulk_),
                                 ReservedElementId(e, j), MaxReservedElementId)
           child == [id |-> new_id, parent |-> e, io_part |-> subelem.phase,
                     nodes |-> [n \in 1..Len(subelem.nodes) |->
                                  NodeEntity(mesh, subelem.nodes[n])]]
       IN  create_subelement_mesh_entities_always_new(
             [mesh EXCEPT !.elements[e].subelements[j].entityId = new_id],
             [bulk_ EXCEPT !.elems = @ \cup {child}], e, j + 1)

\* CDMesh::create_subelement_mesh_entities for the sub-elements j.. of element e
RECURSIVE create_subelement_mesh_entities(_, _, _, _)
create_subelement_mesh_entities(mesh, bulk_, e, j) ==
  IF j > Len(mesh.elements[e].subelements) THEN [mesh |-> mesh, bulk |-> bulk_]
  ELSE LET subelem == mesh.elements[e].subelements[j]
       IN  IF subelem.entityId = 0
             THEN LET new_id == NewEntityId(UsedElementIds(mesh, bulk_),
                                             ReservedElementId(e, j), MaxReservedElementId)
                      child == [id |-> new_id, parent |-> e, io_part |-> subelem.phase,
                                nodes |-> [n \in 1..Len(subelem.nodes) |->
                                             NodeEntity(mesh, subelem.nodes[n])]]
                  IN  create_subelement_mesh_entities(
                        [mesh EXCEPT !.elements[e].subelements[j].entityId = new_id],
                        [bulk_ EXCEPT !.elems = @ \cup {child}], e, j + 1)
             ELSE create_subelement_mesh_entities(
                    mesh,
                    [bulk_ EXCEPT !.elems =
                       {IF c.id = subelem.entityId THEN [c EXCEPT !.io_part = subelem.phase] ELSE c :
                          c \in @}],
                    e, j + 1)

\* CDMesh::update_uncut_element
\* a variant of update_uncut_element that leaves the parts of the element alone
update_uncut_element_parts_kept(bulk_, elem) == bulk_

update_uncut_element(bulk_, elem) ==
  IF bulk_.parent[elem.entityId] \/ elem_io_part_changed(bulk_, elem)
    THEN [bulk_ EXCEPT !.io_part[elem.entityId] = elem.phase, !.parent[elem.entityId] = FALSE]
    ELSE bulk_

\* CDMesh::create_element_and_side_entities for the elements e..
RECURSIVE create_element_and_side_entities(_, _, _)
create_element_and_side_entities(mesh, bulk_, e) ==
  IF e > Len(mesh.elements) THEN [mesh |-> mesh, bulk |-> bulk_]
  ELSE IF have_subelements(mesh.elements[e])
    THEN LET r == create_subelement_mesh_entities(mesh, bulk_, e, 1)
         IN  \* determine_nonconformal_parts: the parent leaves the active part
             create_element_and_side_entities(
               r.mesh, [r.bulk EXCEPT !.io_part[e] = 0, !.parent[e] = TRUE], e + 1)
    ELSE create_element_and_side_entities(
           mesh, update_uncut_element(bulk_, mesh.elements[e]), e + 1)

\* delete_mesh_entities : the elements go, and the child nodes left without element
delete_mesh_entities(bulk_, child_elems) ==
  LET kept == {c \in bulk_.elems : c.id \notin child_elems}
  IN  [bulk_ EXCEPT !.elems = kept,
                    !.nodes = {n \in @ : \E c \in kept : n.id \in Range(c.nodes)}]

\* CDMesh::modify_mesh : the snapshot, the mesh database and modificationIsNeeded
modify_mesh(mesh, bulk_, level) ==
  LET m1 == set_entities_for_identical_nodes(mesh, bulk_)
      r2 == set_entities_for_existing_child_elements(m1, bulk_)
      r3 == get_unused_old_child_elements(r2.mesh, bulk_)
      modificationIsNeeded == (level > 0) \/ ~r2.all \/ r3.unused # {}
      r4 == create_node_entities(r3.mesh, bulk_)
      r5 == create_element_and_side_entities(r4.mesh, r4.bulk, 1)
  IN  IF modificationIsNeeded
        THEN [mesh |-> r5.mesh, bulk |-> delete_mesh_entities(r5.bulk, r3.unused),
              modified |-> TRUE]
        ELSE [mesh |-> r3.mesh, bulk |-> bulk_, modified |-> FALSE]

\* a variant of the status of decompose_mesh that always reports a modified mesh
decompose_mesh_status_always_modified(mesh_modified_) ==
  BitOr(COORDINATES_MAY_BE_MODIFIED, MESH_MODIFIED)

\* the status computed at the end of CDMesh::decompose_mesh
decompose_mesh_status(mesh_modified_) ==
  IF mesh_modified_ THEN BitOr(COORDINATES_MAY_BE_MODIFIED, MESH_MODIFIED)
                    ELSE COORDINATES_MAY_BE_MODIFIED

\* CDMesh::build_and_stash_old_mesh : the snapshot with its stashed old mesh
\* a variant of build_and_stash_old_mesh that builds the old mesh and stashes
\* nothing on it
build_and_stash_old_mesh_unstashed(mesh, bulk_, stepCount, level) ==
  LET fresh == CDMesh(NewMeshId(LiveMeshIds(<<mesh>>)), NullMesh)
  IN  IF mesh.my_old_mesh = NullMesh
        THEN [mesh EXCEPT !.my_old_mesh = <<generate_nonconformal_elements(fresh)>>]
        ELSE mesh

\* a variant of build_and_stash_old_mesh that builds no old mesh when the snapshot
\* has none
build_and_stash_old_mesh_only_existing(mesh, bulk_, stepCount, level) ==
  LET fresh == CDMesh(NewMeshId(LiveMeshIds(<<mesh>>)), NullMesh)
  IN  IF mesh.my_old_mesh = NullMesh
        THEN mesh
        ELSE LET old_mesh == IF level > 0
                               THEN restore_subelements(generate_nonconformal_elements(fresh),
                                                        bulk_, FALSE)
                               ELSE mesh.my_old_mesh[1]
             IN  [mesh EXCEPT !.my_old_mesh =
                    <<stash_field_data(old_mesh, stepCount, mesh, bulk_)>>]

build_and_stash_old_mesh(mesh, bulk_, stepCount, level) ==
  LET fresh == CDMesh(NewMeshId(LiveMeshIds(<<mesh>>)), NullMesh)
  IN  IF mesh.my_old_mesh = NullMesh
        THEN [mesh EXCEPT !.my_old_mesh =
                <<stash_field_data(generate_nonconformal_elements(fresh), -1, mesh, bulk_)>>]
        ELSE LET old_mesh == IF level > 0
                               THEN restore_subelements(generate_nonconformal_elements(fresh),
                                                        bulk_, FALSE)
                               ELSE mesh.my_old_mesh[1]
             IN  [mesh EXCEPT !.my_old_mesh =
                    <<stash_field_data(old_mesh, stepCount, mesh, bulk_)>>]

\* CDMesh::handle_possible_failed_time_step : the_new_mesh afterwards
\* a variant of handle_possible_failed_time_step that restores the mesh only when
\* the last step failed
handle_possible_failed_time_step_last_failed_only(new_mesh, bulk_, step_count) ==
  IF new_mesh = NullMesh THEN new_mesh
  ELSE LET oldMesh == new_mesh[1].my_old_mesh
           lastStepFailed == oldMesh # NullMesh /\ oldMesh[1].my_stash_step_count = step_count
       IN  IF lastStepFailed
             THEN <<restore_subelements(
                      generate_nonconformal_elements(
                        CDMesh(NewMeshId(LiveMeshIds(new_mesh)), NullMesh)),
                      bulk_, FALSE)>>
             ELSE new_mesh

handle_possible_failed_time_step(new_mesh, bulk_, step_count) ==
  IF new_mesh = NullMesh THEN new_mesh
  ELSE LET oldMesh == new_mesh[1].my_old_mesh
           noSuccessfulDecompositionSinceLastFailedStep == oldMesh = NullMesh
           lastStepFailed == oldMesh # NullMesh /\ oldMesh[1].my_stash_step_count = step_count
           restoreMesh == lastStepFailed \/ noSuccessfulDecompositionSinceLastFailedStep
       IN  IF restoreMesh
             THEN <<restore_subelements(
                      generate_nonconformal_elements(
                        CDMesh(NewMeshId(LiveMeshIds(new_mesh)), NullMesh)),
                      bulk_, FALSE)>>
             ELSE new_mesh

(***************************************************************************)
(* Actions of the decomposition: decompose_mesh in its steps, and the      *)
(* other entry points between two calls of it                              *)
(***************************************************************************)
NoCall == [geometry |-> -1, step_count |-> -1, bulk_at_entry |-> <<>>]

InitMesh ==
  /\ the_new_mesh = NullMesh
  /\ bulk \in {BulkData(q, f) : q \in BOOLEAN, f \in BOOLEAN}
  /\ my_cdfem_support \in [interface_maximum_refinement_level : RefinementLevels]
  /\ pc = "idle"
  /\ call = NoCall
  /\ mesh_modified = FALSE
  /\ status = 0
  /\ last_geometry = <<>>
  /\ m_comm_map = << >>
  /\ m_last_lookup = EndIt
  /\ m_comm_map_change_listener = FALSE
  /\ notifications = <<>>
  /\ op = Op("none", 0, 0, 0)
  /\ ret = FALSE
  /\ view = <<>>
  /\ managed_nodes = <<>>
  /\ midside_map = {}
  /\ created = {}
  /\ returned = <<>>
  /\ sides = <<>>
  /\ side_requests = {}
  /\ modify_pc = "idle"
  /\ modification_log = <<>>
  /\ automatic_aura = TRUE
  /\ assertions = TRUE
  /\ check_result = "none"
  /\ prolong_input = <<>>
  /\ prolong_pc = "idle"
  /\ proc_padding = 0
  /\ my_missing_remote_prolong_facets = FALSE
  /\ is_prolonged = FALSE
  /\ prolong_source = <<>>
  /\ failure_logged = FALSE
  /\ node_entity = 0
  /\ sync_input = <<>>
  /\ sync_pc = "idle"
  /\ node_value = <<>>
  /\ processed = {}
  /\ pending_local = {}
  /\ in_flight = {}
  /\ write_count = <<>>
  /\ round_input = <<>>
  /\ round_pc = "idle"
  /\ round_sized = {}
  /\ round_sent = {}
  /\ round_passes = 0
  /\ edge_nodes = <<>>
  /\ decompose_input = <<>>
  /\ decompose_at = 0
  /\ elem_phase_from = <<>>
  /\ rank_input = <<>>
  /\ rank_pc = <<>>
  /\ reduce_inputs = <<>>
  /\ rank_needed = <<>>
  /\ rank_transactions = <<>>
  /\ rank_returned = <<>>
  /\ side_nodes_input = <<>>
  /\ side_nodes_pc = "idle"
  /\ side_nodes_check = <<>>

\* decompose_mesh, first block: the_new_mesh = std::make_shared<CDMesh>(mesh, the_new_mesh)
DecomposeMeshConstruct ==
  \E g \in Geometries, step_count \in StepCounts :
    /\ pc = "idle"
    /\ the_new_mesh' = <<CDMesh(NewMeshId(LiveMeshIds(the_new_mesh)), the_new_mesh)>>
    /\ call' = [geometry |-> g, step_count |-> step_count, bulk_at_entry |-> <<bulk>>]
    /\ pc' = "constructed"
    /\ UNCHANGED <<bulk, my_cdfem_support, mesh_modified, status, last_geometry>>
    /\ UNCHANGED <<commVars, restVars>>

\* decompose_mesh, second block: generate_nonconformal_elements, then the cutting
DecomposeMeshDecompose ==
  /\ pc = "constructed"
  /\ the_new_mesh' =
       <<decompose(generate_nonconformal_elements(the_new_mesh[1]), call.geometry, bulk.quadratic)>>
  /\ pc' = "decomposed"
  /\ UNCHANGED <<bulk, my_cdfem_support, call, mesh_modified, status, last_geometry>>
  /\ UNCHANGED <<commVars, restVars>>

\* decompose_mesh: the_new_mesh->build_and_stash_old_mesh(step_count)
DecomposeMeshStash ==
  /\ pc = "decomposed"
  /\ the_new_mesh' =
       <<build_and_stash_old_mesh(the_new_mesh[1], bulk, call.step_count,
                                  my_cdfem_support.interface_maximum_refinement_level)>>
  /\ pc' = "stashed"
  /\ UNCHANGED <<bulk, my_cdfem_support, call, mesh_modified, status, last_geometry>>
  /\ UNCHANGED <<commVars, restVars>>

\* decompose_mesh: mesh_modified = the_new_mesh->modify_mesh()
DecomposeMeshModify ==
  /\ pc = "stashed"
  /\ LET r == modify_mesh(the_new_mesh[1], bulk,
                          my_cdfem_support.interface_maximum_refinement_level)
     IN  /\ the_new_mesh' = <<r.mesh>>
         /\ bulk' = r.bulk
         /\ mesh_modified' = r.modified
  /\ pc' = "modified"
  /\ UNCHANGED <<my_cdfem_support, call, status, last_geometry>>
  /\ UNCHANGED <<commVars, restVars>>

\* decompose_mesh: prolongation, then the status is returned
DecomposeMeshReturn ==
  /\ pc = "modified"
  /\ status' = decompose_mesh_status(mesh_modified)
  /\ last_geometry' = <<call.geometry>>
  /\ call' = NoCall
  /\ mesh_modified' = FALSE
  /\ pc' = "idle"
  /\ UNCHANGED <<the_new_mesh, bulk, my_cdfem_support>>
  /\ UNCHANGED <<commVars, restVars>>

\* CDMesh::handle_possible_failed_time_step(mesh, step_count)
HandlePossibleFailedTimeStep ==
  \E step_count \in StepCounts :
    /\ pc = "idle"
    /\ the_new_mesh' = handle_possible_failed_time_step(the_new_mesh, bulk, step_count)
    /\ UNCHANGED <<bulk, my_cdfem_support, pc, call, mesh_modified, status, last_geometry>>
    /\ UNCHANGED <<commVars, restVars>>

\* the_new_mesh->rebuild_after_rebalance(), first statement: clear()
RebuildAfterRebalanceClear ==
  /\ pc = "idle"
  /\ the_new_mesh # NullMesh
  /\ the_new_mesh' = <<clear(the_new_mesh[1])>>
  /\ pc' = "cleared"
  /\ UNCHANGED <<bulk, my_cdfem_support, call, mesh_modified, status, last_geometry>>
  /\ UNCHANGED <<commVars, restVars>>

\* whether the nodes rebuilt after clear() land on the addresses of the destroyed
\* ones: it matters only when create_midside_node searches a map with stale entries
AddressReuse(mesh) ==
  IF bulk.quadratic /\ bulk.elems # {} /\ HasStaleEntries(mesh) THEN BOOLEAN ELSE {FALSE}

\* rebuild_after_rebalance, the rest: generate_nonconformal_elements(); restore_subelements().
\* When a sub-element was built on a destroyed node the behaviour of the program
\* is undefined from there on (pc = "undefined") and is not followed further.
RebuildAfterRebalanceRestore ==
  /\ pc = "cleared"
  /\ \E reuse \in AddressReuse(the_new_mesh[1]) :
       LET restored == restore_subelements(generate_nonconformal_elements(the_new_mesh[1]),
                                           bulk, reuse)
       IN  /\ the_new_mesh' = <<restored>>
           /\ pc' = IF DanglingNodes(restored) # {} THEN "undefined" ELSE "idle"
  /\ UNCHANGED <<bulk, my_cdfem_support, call, mesh_modified, status, last_geometry>>
  /\ UNCHANGED <<commVars, restVars>>

\* the_new_mesh->find_child_element(elem) from outside a decomposition
FindChildElement ==
  \E id \in Elems \cup {c.id : c \in bulk.elems} :
    /\ pc = "idle"
    /\ the_new_mesh # NullMesh
    /\ the_new_mesh' = <<find_child_element(the_new_mesh[1], id).mesh>>
    /\ UNCHANGED <<bulk, my_cdfem_support, pc, call, mesh_modified, status, last_geometry>>
    /\ UNCHANGED <<commVars, restVars>>

NextMesh ==
  \/ DecomposeMeshConstruct
  \/ DecomposeMeshDecompose
  \/ DecomposeMeshStash
  \/ DecomposeMeshModify
  \/ DecomposeMeshReturn
  \/ HandlePossibleFailedTimeStep
  \/ RebuildAfterRebalanceClear
  \/ RebuildAfterRebalanceRestore
  \/ FindChildElement

(***************************************************************************)
(* Node creation in a snapshot: CDMesh::create_edge_node,                  *)
(* create_midside_node, create_steiner_node and                            *)
(* create_child_internal_or_face_node called on one snapshot.  A node is   *)
(* its position in nodes; a parent set is a set of such positions.         *)
(***************************************************************************)
NodeRules == {"edge", "midside", "steiner", "child"}

\* a SubElementNode: the rule that made it, its parents, the children added to it
SubElementNode(rule, parents) == [rule |-> rule, parents |-> parents, children |-> {}]

\* the parent sets a caller can pass: two nodes for an edge or a mid-side node,
\* two or three for a Steiner or an internal/face node
ParentSets(node_vec, rule) ==
  {P \in SUBSET (1..Len(node_vec)) :
     IF rule \in {"edge", "midside"} THEN Cardinality(P) = 2 ELSE Cardinality(P) \in {2, 3}}

\* SubElementNode::common_child(parents): a node that every parent holds as a child
\* and that has exactly these parents; 0 when there is none
common_child(node_vec, parents) ==
  LET S == {i \in 1..Len(node_vec) :
              /\ \A p \in parents : i \in node_vec[p].children
              /\ node_vec[i].parents = parents}
  IN  IF S = {} THEN 0 ELSE CHOOSE i \in S : \A j \in S : i <= j

\* parent->add_child(subnode) for every parent
add_child(node_vec, parents, subnode) ==
  [i \in 1..Len(node_vec) |->
     IF i \in parents THEN [node_vec[i] EXCEPT !.children = @ \cup {subnode}] ELSE node_vec[i]]

\* what a creation operation gives: the nodes and the map afterwards, the node returned
NodeResult(node_vec, map, subnode) == [nodes |-> node_vec, map |-> map, subnode |-> subnode]

\* CDMesh::create_edge_node and CDMesh::create_child_internal_or_face_node
create_common_child_node(node_vec, map, rule, parents) ==
  LET subnode == common_child(node_vec, parents)
      newNode == Len(node_vec) + 1
  IN  IF subnode # 0 THEN NodeResult(node_vec, map, subnode)
      ELSE NodeResult(add_child(Append(node_vec, SubElementNode(rule, parents)), parents, newNode),
                      map, newNode)

\* CDMesh::create_midside_node on a snapshot whose nodes are all alive
create_midside_node_in(node_vec, map, parents) ==
  LET found == {en \in map : en.parents = parents}
      newNode == Len(node_vec) + 1
  IN  IF found # {} THEN NodeResult(node_vec, map, (CHOOSE en \in found : TRUE).node)
      ELSE NodeResult(Append(node_vec, SubElementNode("midside", parents)),
                      map \cup {[parents |-> parents, node |-> newNode]}, newNode)

\* CDMesh::create_steiner_node
create_steiner_node(node_vec, map, parents) ==
  NodeResult(Append(node_vec, SubElementNode("steiner", parents)), map, Len(node_vec) + 1)

create_node(node_vec, map, rule, parents) ==
  CASE rule \in {"edge", "child"} -> create_common_child_node(node_vec, map, rule, parents)
    [] rule = "midside" -> create_midside_node_in(node_vec, map, parents)
    [] rule = "steiner" -> create_steiner_node(node_vec, map, parents)

\* one creation request served on the snapshot
ServeRequest(rule, parents) ==
  LET r == create_node(managed_nodes, midside_map, rule, parents)
      request == [rule |-> rule, parents |-> parents, node |-> r.subnode]
  IN  /\ Len(managed_nodes) < MaxNodes
      /\ managed_nodes' = r.nodes
      /\ midside_map' = r.map
      /\ created' = created \cup {request}
      /\ returned' = <<request>>
      /\ UNCHANGED <<commVars, meshVars, modifyVars, prolongVars, syncVars, roundVars, decomposeVars, parallelVars, sideCheckVars>>

CreateEdgeNode ==
  \E parents \in ParentSets(managed_nodes, "edge") : ServeRequest("edge", parents)

CreateMidsideNode ==
  \E parents \in ParentSets(managed_nodes, "midside") : ServeRequest("midside", parents)

CreateSteinerNode ==
  \E parents \in ParentSets(managed_nodes, "steiner") : ServeRequest("steiner", parents)

CreateChildInternalOrFaceNode ==
  \E parents \in ParentSets(managed_nodes, "child") : ServeRequest("child", parents)

NextNodes ==
  \/ CreateEdgeNode
  \/ CreateMidsideNode
  \/ CreateSteinerNode
  \/ CreateChildInternalOrFaceNode

(***************************************************************************)
(* The modifying branch of CDMesh::modify_mesh, statement by statement,    *)
(* and the parts of the element sides.  A side is a place where a side     *)
(* entity can be; it is touched by the active elements around it, whose    *)
(* conformal volume parts are what the side entity holds as induced parts. *)
(***************************************************************************)
Blocks == {1, 2}
Phases == {-1, 1}
\* the conformal volume part of a phase of a decomposed block
ConformalVolumeParts == [block : Blocks, phase : Phases]

\* what can touch a side: the distinct conformal volume parts of at most two elements
Touchings == {T \in SUBSET ConformalVolumeParts : Cardinality(T) <= 2}

\* a side: the parts touching it, whether the side entity exists, whether it
\* carries an interface part
Side(touching, entity, interface) ==
  [touching |-> touching, entity |-> entity, interface |-> interface]

SideIds == 1..NumSides

\* my_phase_support.find_interface_part(a, b) # nullptr : the two phases of one block
find_interface_part(a, b) == a.block = b.block /\ a.phase # b.phase

\* my_phase_support.get_iopart_phase
get_iopart_phase(part) == part.phase

\* the two parts differ in phase (conformal_volume_parts.size() == 2 && side_phases[0] != side_phases[1])
TwoPhasesMeet(touching) ==
  /\ Cardinality(touching) = 2
  /\ \E a \in touching : \E b \in touching : get_iopart_phase(a) # get_iopart_phase(b)

\* an interface part exists for the parts that meet
InterfacePartExpected(touching) ==
  /\ TwoPhasesMeet(touching)
  /\ \E a \in touching : \E b \in touching : find_interface_part(a, b)

\* my_phase_support.find_conformal_io_part(part, phase) for an interface part carried
\* by a side: the side part of the phase, another part than the interface part
find_conformal_io_part_is_other == TRUE

\* CDMesh::determine_conformal_parts(existing_side_parts, side_rank, phase, ..) as far
\* as the interface part goes: the part is put in remove_parts when its conformal
\* part for the phase is another part
determine_conformal_parts_removes(interface) == interface /\ find_conformal_io_part_is_other

\* stk_bulk().change_entity_parts(side, add_parts, remove_parts) for one part: a part
\* in add_parts is not removed
change_entity_parts(has, add, remove) == add \/ (has /\ ~remove)

\* a variant of determine_element_side_parts that adds no interface part
determine_element_side_parts_no_interface(side) ==
  IF side.touching = {} THEN side
  ELSE [side EXCEPT !.interface =
          change_entity_parts(side.interface, FALSE, determine_conformal_parts_removes(side.interface))]

\* CDMesh::determine_element_side_parts with the change_entity_parts that follows it
determine_element_side_parts(side) ==
  IF side.touching = {} THEN side
  ELSE [side EXCEPT !.interface =
          change_entity_parts(side.interface,
                              InterfacePartExpected(side.touching),
                              determine_conformal_parts_removes(side.interface))]

\* CDMesh::update_element_side_parts : every side entity
update_element_side_parts(side_vec) ==
  [s \in 1..Len(side_vec) |->
     IF side_vec[s].entity THEN determine_element_side_parts(side_vec[s]) ELSE side_vec[s]]

\* have_multiple_conformal_volume_parts_in_common of the side's nodes: the parts
\* that touch the side are common to its nodes
have_multiple_conformal_volume_parts_in_common(side) == Cardinality(side.touching) >= 2

\* CDMesh::add_possible_interface_sides : the sides asked for by the probe of the
\* nodes; keyholes are sides whose nodes have two parts in common though one part
\* touches the side
add_possible_interface_sides(side_vec, requests, keyholes) ==
  requests \cup {s \in 1..Len(side_vec) :
                   have_multiple_conformal_volume_parts_in_common(side_vec[s])}
           \cup {s \in keyholes : side_vec[s].touching # {}}

\* batch_create_sides : a side entity for every request that has none
batch_create_sides(side_vec, requests) ==
  [s \in 1..Len(side_vec) |->
     IF s \in requests /\ ~side_vec[s].entity THEN Side(side_vec[s].touching, TRUE, FALSE)
     ELSE side_vec[s]]

\* CDMesh::check_element_side_parts(side_nodes): "true", "false", or "undefined" when
\* sides[0] is read from the empty vector of sides
check_element_side_parts_of(side) ==
  IF side.touching = {} THEN "true"
  ELSE IF TwoPhasesMeet(side.touching)
    THEN IF InterfacePartExpected(side.touching)
           THEN IF ~side.entity THEN "false"
                ELSE IF ~side.interface THEN "false" ELSE "true"
           ELSE "true"
    ELSE IF ~side.entity THEN "undefined"
         ELSE IF side.interface THEN "false" ELSE "true"

\* CDMesh::check_element_side_parts() : skipped without aura
check_element_side_parts(side_vec, aura) ==
  LET results == {check_element_side_parts_of(side_vec[s]) : s \in 1..Len(side_vec)}
  IN  IF ~aura THEN "skipped"
      ELSE IF "undefined" \in results THEN "undefined"
      ELSE IF "false" \in results THEN "false"
      ELSE "true"

\* the transactions modify_mesh has begun, and has ended, so far
Begun(log) == Cardinality({i \in 1..Len(log) : log[i].what = "modification_begin"})

Ended(log) == Cardinality({i \in 1..Len(log) : log[i].what = "modification_end"})

\* the transaction that is open: 0 when none is
OpenTransaction(log) == IF Begun(log) > Ended(log) THEN Begun(log) ELSE 0

\* the log with one more entry: what was done, and the transaction open then (the
\* one it opens, for modification_begin)
Done(log, what) ==
  Append(log, [what |-> what,
               transaction |-> IF what = "modification_begin" THEN Begun(log) + 1
                               ELSE OpenTransaction(log)])

\* the sides after the elements were created, changed and deleted in the first
\* transaction: what touches each side is new, the side entities stay
WithTouching(side_vec, touching) ==
  [s \in 1..Len(side_vec) |-> [side_vec[s] EXCEPT !.touching = touching[s]]]

\* stk_bulk().modification_begin(), the first one
ModificationBeginFirst ==
  /\ modify_pc = "idle"
  /\ modification_log' = Done(<<>>, "modification_begin")
  /\ side_requests' = {}
  /\ check_result' = "none"
  /\ modify_pc' = "first"
  /\ UNCHANGED <<sides, automatic_aura, assertions>>
  /\ UNCHANGED <<commVars, meshVars, nodeVars, prolongVars, syncVars, roundVars, decomposeVars, parallelVars, sideCheckVars>>

\* create_node_entities(); create_element_and_side_entities(side_requests);
\* destroy_custom_ghostings; delete_mesh_entities(unused_old_child_elems)
CreateAndDeleteEntities ==
  \E touching \in [SideIds -> Touchings], missing \in SUBSET SideIds :
    /\ modify_pc = "first"
    /\ sides' = WithTouching(sides, touching)
    /\ side_requests' = {s \in missing : ~sides[s].entity /\ touching[s] # {}}
    /\ modification_log' =
         Done(Done(Done(Done(modification_log, "create_node_entities"),
                        "create_element_entities"),
                   "request_sides"),
              "delete_unused_old_child_elements")
    /\ modify_pc' = "first_filled"
    /\ UNCHANGED <<automatic_aura, assertions, check_result>>
    /\ UNCHANGED <<commVars, meshVars, nodeVars, prolongVars, syncVars, roundVars, decomposeVars, parallelVars, sideCheckVars>>

\* a variant in which the first transaction is left open
ModificationEndFirstLeftOpen ==
  /\ modify_pc = "first_filled"
  /\ modify_pc' = "between"
  /\ UNCHANGED <<sides, side_requests, modification_log, automatic_aura, assertions,
                 check_result>>
  /\ UNCHANGED <<commVars, meshVars, nodeVars, prolongVars, syncVars, roundVars, decomposeVars, parallelVars, sideCheckVars>>

\* stk_bulk().modification_end(), the first one
ModificationEndFirst ==
  /\ modify_pc = "first_filled"
  /\ modification_log' = Done(modification_log, "modification_end")
  /\ modify_pc' = "between"
  /\ UNCHANGED <<sides, side_requests, automatic_aura, assertions, check_result>>
  /\ UNCHANGED <<commVars, meshVars, nodeVars, prolongVars, syncVars, roundVars, decomposeVars, parallelVars, sideCheckVars>>

\* add_possible_interface_sides(side_requests); batch_create_sides(stk_bulk(), side_requests)
BatchCreateSides ==
  \E keyholes \in SUBSET SideIds :
    /\ modify_pc = "between"
    /\ side_requests' = add_possible_interface_sides(sides, side_requests, keyholes)
    /\ sides' = batch_create_sides(sides, side_requests')
    /\ modification_log' =
         Done(Done(Done(modification_log, "helper_modification_begin"),
                   "create_side_entities"),
              "helper_modification_end")
    /\ modify_pc' = "sides_created"
    /\ UNCHANGED <<automatic_aura, assertions, check_result>>
    /\ UNCHANGED <<commVars, meshVars, nodeVars, prolongVars, syncVars, roundVars, decomposeVars, parallelVars, sideCheckVars>>

\* a variant in which the second transaction is not begun
ModificationBeginSecondSkipped ==
  /\ modify_pc = "sides_created"
  /\ modify_pc' = "second"
  /\ UNCHANGED <<sides, side_requests, modification_log, automatic_aura, assertions,
                 check_result>>
  /\ UNCHANGED <<commVars, meshVars, nodeVars, prolongVars, syncVars, roundVars, decomposeVars, parallelVars, sideCheckVars>>

\* stk_bulk().modification_begin(), the second one
ModificationBeginSecond ==
  /\ modify_pc = "sides_created"
  /\ modification_log' = Done(modification_log, "modification_begin")
  /\ modify_pc' = "second"
  /\ UNCHANGED <<sides, side_requests, automatic_aura, assertions, check_result>>
  /\ UNCHANGED <<commVars, meshVars, nodeVars, prolongVars, syncVars, roundVars, decomposeVars, parallelVars, sideCheckVars>>

\* update_node_activation(..); update_element_side_parts()
UpdateElementSideParts ==
  /\ modify_pc = "second"
  /\ sides' = update_element_side_parts(sides)
  /\ modification_log' =
       Done(Done(modification_log, "update_node_activation"), "update_element_side_parts")
  /\ modify_pc' = "second_updated"
  /\ UNCHANGED <<side_requests, automatic_aura, assertions, check_result>>
  /\ UNCHANGED <<commVars, meshVars, nodeVars, prolongVars, syncVars, roundVars, decomposeVars, parallelVars, sideCheckVars>>

\* stk_bulk().modification_end(), the second one
ModificationEndSecond ==
  /\ modify_pc = "second_updated"
  /\ modification_log' = Done(modification_log, "modification_end")
  /\ modify_pc' = "ended"
  /\ UNCHANGED <<sides, side_requests, automatic_aura, assertions, check_result>>
  /\ UNCHANGED <<commVars, meshVars, nodeVars, prolongVars, syncVars, roundVars, decomposeVars, parallelVars, sideCheckVars>>

\* ParallelThrowAssert(stk_bulk().parallel(), check_element_side_parts()), and the
\* return of modify_mesh when the assertion lets it return
CheckElementSideParts ==
  /\ modify_pc = "ended"
  /\ check_result' = IF assertions THEN check_element_side_parts(sides, automatic_aura)
                                   ELSE "not evaluated"
  /\ modify_pc' = CASE check_result' = "false" -> "aborted"
                    [] check_result' = "undefined" -> "undefined"
                    [] OTHER -> "idle"
  /\ UNCHANGED <<sides, side_requests, modification_log, automatic_aura, assertions>>
  /\ UNCHANGED <<commVars, meshVars, nodeVars, prolongVars, syncVars, roundVars, decomposeVars, parallelVars, sideCheckVars>>

\* batch_change_entity_parts : the parts of the entities changed in a transaction
\* of its own
batch_change_entity_parts(log) ==
  Done(Done(Done(log, "modification_begin"), "change_entity_parts"), "modification_end")

\* delete_extraneous_inactive_sides : the inactive sides destroyed in a transaction
\* of its own
delete_extraneous_inactive_sides(log) ==
  Done(Done(Done(log, "modification_begin"), "destroy_entity"), "modification_end")

\* CDMesh::rebuild_from_restart_mesh : the child, parent and active parts rebuilt,
\* the conformal side parts rebuilt in one transaction, the extraneous inactive
\* sides deleted
RebuildFromRestartMesh ==
  /\ modify_pc = "idle"
  /\ sides' = update_element_side_parts(sides)
  /\ modification_log' =
       delete_extraneous_inactive_sides(
         Done(Done(Done(Done(
           batch_change_entity_parts(batch_change_entity_parts(batch_change_entity_parts(<<>>))),
           "modification_begin"), "update_node_activation"), "update_element_side_parts"),
           "modification_end"))
  /\ UNCHANGED <<side_requests, modify_pc, automatic_aura, assertions, check_result>>
  /\ UNCHANGED <<commVars, meshVars, nodeVars, prolongVars, syncVars, roundVars, decomposeVars, parallelVars, sideCheckVars>>

NextModify ==
  \/ ModificationBeginFirst
  \/ CreateAndDeleteEntities
  \/ ModificationEndFirst
  \/ BatchCreateSides
  \/ ModificationBeginSecond
  \/ UpdateElementSideParts
  \/ ModificationEndSecond
  \/ CheckElementSideParts
  \/ RebuildFromRestartMesh

(***************************************************************************)
(* CDMesh::prolongation for one new node: the padding loop and             *)
(* find_prolongation_node.  Lengths are integers; proc_padding is kept in  *)
(* halves of the unit so that 1.5 * displacement is an integer.            *)
(***************************************************************************)
FieldSets == {{1}, {1, 2}}

\* a ProlongationFacet of the old mesh: the fields common to its nodes, its distance
\* from the new node, whether another rank holds it
ProlongationFacet(fields, dist, remote) == [fields |-> fields, dist |-> dist, remote |-> remote]

\* a ProlongationNodeData of my_prolong_node_map
ProlongationNodeData(id, fields, dist) == [id |-> id, fields |-> fields, dist |-> dist]

LocalFacets == {ProlongationFacet(f, d, FALSE) : f \in FieldSets, d \in 1..2}

RemoteFacets == {ProlongationFacet(f, d, TRUE) : f \in FieldSets, d \in 1..MaxDist}

StashedNodes(id) == {ProlongationNodeData(id, f, d) : f \in FieldSets, d \in 1..2}

\* ProlongationFacet::communicate(old_mesh, facets, nodes, proc_target_bboxes): the
\* facets of this rank, and those of other ranks within the padded box of the node
communicate(facets, padding) == {f \in facets : ~f.remote \/ 2 * f.dist <= padding}

\* CDMesh::build_prolongation_trees : one tree for each set of common fields
build_prolongation_trees(facets) ==
  {[fields |-> F, null |-> FALSE, facets |-> {f \in facets : f.fields = F}] :
     F \in {f.fields : f \in facets}}

\* CDMesh::communicate_prolongation_facet_fields : an empty entry for each field set
\* that another rank has a tree for and this rank has not
communicate_prolongation_facet_fields(tree_map, num_procs, all_facets) ==
  IF num_procs = 1 THEN tree_map
  ELSE tree_map \cup
       {[fields |-> F, null |-> TRUE, facets |-> {}] :
          F \in {f.fields : f \in {g \in all_facets : g.remote}}
                  \ {t.fields : t \in tree_map}}

\* std::includes(tree_fields, required_fields)
includes(tree_fields, required_fields) == required_fields \subseteq tree_fields

\* the nearest of a set of facets or nodes
Nearest(S) == CHOOSE x \in S : \A y \in S : x.dist <= y.dist

\* what find_prolongation_node gives: src_data and where it is from, the flag it
\* raises, whether it logs the failure
ProlongationData(kind, source, missing, logged) ==
  [kind |-> kind, source |-> source, missing |-> missing, logged |-> logged]

\* a variant of find_prolongation_node that searches every tree and every node
find_prolongation_node_any_fields(tree_map, node_map, required_fields) ==
  LET facets == UNION {t.facets : t \in tree_map}
  IN  IF facets # {} THEN ProlongationData("facet", <<Nearest(facets)>>, FALSE, FALSE)
      ELSE IF node_map # {} THEN ProlongationData("node", <<Nearest(node_map)>>, FALSE, FALSE)
      ELSE ProlongationData("none", <<>>, FALSE, TRUE)

\* CDMesh::find_prolongation_node
find_prolongation_node(tree_map, node_map, required_fields) ==
  LET matching == {t \in tree_map : includes(t.fields, required_fields)}
      matching_empty_tree == \E t \in matching : t.null
      facets == UNION {t.facets : t \in matching}
      nodes_ == {n \in node_map : includes(n.fields, required_fields)}
  IN  IF facets # {} THEN ProlongationData("facet", <<Nearest(facets)>>, FALSE, FALSE)
      ELSE IF matching_empty_tree THEN ProlongationData("none", <<>>, TRUE, FALSE)
      ELSE IF nodes_ # {} THEN ProlongationData("node", <<Nearest(nodes_)>>, FALSE, FALSE)
      ELSE ProlongationData("none", <<>>, FALSE, TRUE)

\* SubElementNode::prolongate_fields : the node is prolonged from the data found for
\* it and is left as it was when none was found
prolongate_fields(src_data) == src_data.kind # "none"

\* the trees of the old mesh in a round of the loop
TreesOfRound(input, padding) ==
  communicate_prolongation_facet_fields(
    build_prolongation_trees(communicate(input.facets, padding)),
    input.parallel_size, input.facets)

\* CDMesh::get_maximum_cdfem_displacement : the largest displacement over the nodes
\* of the mesh; the new node carries the distance to its source once prolonged
get_maximum_cdfem_displacement(input, prolonged, source) ==
  LET node_displacement == IF prolonged /\ source # <<>> THEN source[1].dist ELSE 0
  IN  IF node_displacement > input.mesh_displacement THEN node_displacement
      ELSE input.mesh_displacement

guess_and_check_proc_padding(input) ==
  input.stash_step_count >= 0 /\ input.parallel_size > 1

\* the padding after a round that repeats: growth_multiplier * max_cdfem_displacement
GrownPadding(max_cdfem_displacement) == 3 * max_cdfem_displacement

\* decompose_mesh between decompose and prolongation(): modify_mesh, whose
\* create_node_entities gives an entity to the node that has no valid one
ModifyMeshCreateNodeEntities ==
  /\ prolong_pc = "decomposed"
  /\ node_entity' = IF node_entity = 0 THEN 1 ELSE node_entity
  /\ prolong_pc' = "idle"
  /\ UNCHANGED <<prolong_input, proc_padding, my_missing_remote_prolong_facets, is_prolonged,
                 prolong_source, failure_logged>>
  /\ UNCHANGED <<commVars, meshVars, nodeVars, modifyVars, syncVars, roundVars, decomposeVars, parallelVars, sideCheckVars>>

\* prolongation(), up to the loop: proc_padding = 3.0 * max_elem_size, or none
ProlongationBegin ==
  /\ prolong_pc = "idle"
  /\ proc_padding' = IF guess_and_check_proc_padding(prolong_input)
                       THEN 2 * 3 * prolong_input.max_elem_size ELSE 0
  /\ prolong_pc' = "search"
  /\ UNCHANGED <<prolong_input, node_entity, my_missing_remote_prolong_facets, is_prolonged, prolong_source,
                 failure_logged>>
  /\ UNCHANGED <<commVars, meshVars, nodeVars, modifyVars, syncVars, roundVars, decomposeVars, parallelVars, sideCheckVars>>

\* the loop body up to the nodal fields: facets communicated, trees built, the flag
\* lowered, node->prolongate_fields(*this) for the node that is not prolonged
ProlongateNodalFields ==
  /\ prolong_pc = "search"
  /\ LET r == find_prolongation_node(TreesOfRound(prolong_input, proc_padding),
                                     prolong_input.node_map, prolong_input.required_fields)
     IN  IF is_prolonged
           THEN /\ my_missing_remote_prolong_facets' = FALSE
                /\ UNCHANGED <<is_prolonged, prolong_source, failure_logged>>
           ELSE /\ my_missing_remote_prolong_facets' = r.missing
                /\ is_prolonged' = prolongate_fields(r)
                /\ prolong_source' = r.source
                /\ failure_logged' = (failure_logged \/ r.logged)
  /\ prolong_pc' = "measure"
  /\ UNCHANGED <<prolong_input, node_entity, proc_padding>>
  /\ UNCHANGED <<commVars, meshVars, nodeVars, modifyVars, syncVars, roundVars, decomposeVars, parallelVars, sideCheckVars>>

\* a variant of the end of the loop body that also repeats for a node left without
\* prolongation data
DecideToRepeatWhileUnprolonged ==
  /\ prolong_pc = "measure"
  /\ LET max_cdfem_displacement ==
           get_maximum_cdfem_displacement(prolong_input, is_prolonged, prolong_source)
     IN  IF /\ guess_and_check_proc_padding(prolong_input)
            /\ (\/ my_missing_remote_prolong_facets
                \/ 2 * max_cdfem_displacement > proc_padding
                \/ ~is_prolonged)
           THEN /\ proc_padding' = GrownPadding(max_cdfem_displacement)
                /\ is_prolonged' = FALSE
                /\ prolong_pc' = "search"
           ELSE /\ prolong_pc' = "finished"
                /\ UNCHANGED <<proc_padding, is_prolonged>>
  /\ UNCHANGED <<prolong_input, node_entity, my_missing_remote_prolong_facets, prolong_source, failure_logged>>
  /\ UNCHANGED <<commVars, meshVars, nodeVars, modifyVars, syncVars, roundVars, decomposeVars, parallelVars, sideCheckVars>>

\* a variant of the end of the loop body that lowers the prolonged flag also when
\* the loop is left
DecideToRepeatUnprolongingAlways ==
  /\ prolong_pc = "measure"
  /\ LET max_cdfem_displacement ==
           get_maximum_cdfem_displacement(prolong_input, is_prolonged, prolong_source)
     IN  IF /\ guess_and_check_proc_padding(prolong_input)
            /\ (my_missing_remote_prolong_facets \/ 2 * max_cdfem_displacement > proc_padding)
           THEN /\ proc_padding' = GrownPadding(max_cdfem_displacement)
                /\ is_prolonged' = FALSE
                /\ prolong_pc' = "search"
           ELSE /\ prolong_pc' = "finished"
                /\ is_prolonged' = FALSE
                /\ UNCHANGED proc_padding
  /\ UNCHANGED <<prolong_input, node_entity, my_missing_remote_prolong_facets, prolong_source, failure_logged>>
  /\ UNCHANGED <<commVars, meshVars, nodeVars, modifyVars, syncVars, roundVars, decomposeVars, parallelVars, sideCheckVars>>

\* the end of the loop body: the displacement is measured and the round repeated
\* with another padding, or the loop is left
DecideToRepeat ==
  /\ prolong_pc = "measure"
  /\ LET max_cdfem_displacement ==
           get_maximum_cdfem_displacement(prolong_input, is_prolonged, prolong_source)
     IN  IF /\ guess_and_check_proc_padding(prolong_input)
            /\ (my_missing_remote_prolong_facets \/ 2 * max_cdfem_displacement > proc_padding)
           THEN /\ proc_padding' = GrownPadding(max_cdfem_displacement)
                /\ is_prolonged' = FALSE
                /\ prolong_pc' = "search"
           ELSE /\ prolong_pc' = "finished"
                /\ UNCHANGED <<proc_padding, is_prolonged>>
  /\ UNCHANGED <<prolong_input, node_entity, my_missing_remote_prolong_facets, prolong_source, failure_logged>>
  /\ UNCHANGED <<commVars, meshVars, nodeVars, modifyVars, syncVars, roundVars, decomposeVars, parallelVars, sideCheckVars>>

NextProlong ==
  \/ ModifyMeshCreateNodeEntities
  \/ ProlongationBegin
  \/ ProlongateNodalFields
  \/ DecideToRepeat

(***************************************************************************)
(* determine_node_signs / determine_node_scores for one interface on two   *)
(* ranks: the elements of each rank set values on its nodes, then the      *)
(* values are synchronised on constrained (periodic) and on shared nodes.  *)
(* Scores are in tenths; a score of 1.0 and a sign of -2 mean "not set".   *)
(***************************************************************************)
Ranks == {0, 1}

\* node 1 and node 2; my_periodic_node_id_map, when not empty, links them
SyncNodes == {1, 2}

Partner(n) == 3 - n

\* clear_node_sign / clear_node_score
ClearedValue(kind) == IF kind = "sign" THEN -2 ELSE 10

\* the i-th of the choices of what an element sets on a node: nothing, or one of
\* two signs or scores
ElemValue(kind, i) ==
  IF i = 0 THEN {}
  ELSE IF kind = "sign" THEN (IF i = 1 THEN {-1} ELSE {1})
  ELSE (IF i = 1 THEN {3} ELSE {7})

\* a variant of SubElementNode::set_node_sign that stores what it is given
set_node_sign_overwrite(current, sign) == sign

\* SubElementNode::set_node_sign
set_node_sign(current, sign) == IF current = 0 \/ current = -sign THEN 0 ELSE sign

\* a variant of SubElementNode::set_node_score that stores what it is given
set_node_score_overwrite(current, score) == score

\* SubElementNode::set_node_score
set_node_score(current, score) == IF score < current THEN score ELSE current

\* set_node_sign_or_score<int>, set_node_sign_or_score<double>
set_node_sign_or_score(kind, current, signOrScore) ==
  IF kind = "sign" THEN set_node_sign(current, signOrScore)
  ELSE set_node_score(current, signOrScore)

\* node_sign_or_score_is_set<int>, node_sign_or_score_is_set<double>
node_sign_or_score_is_set(kind, value) == value # ClearedValue(kind)

\* SubElementChildNodeAncestry::find_subelement_node : the node, when this rank has it
find_subelement_node(input, rank, n) == n \in input.present[rank]

\* SubElementChildNodeAncestry::is_shared
is_shared(input, n) == \A r \in Ranks : n \in input.present[r]

\* the values of a rank after set_node_sign_or_score on one of its nodes
SetOnRank(input, values, rank, n, signOrScore) ==
  IF find_subelement_node(input, rank, n)
    THEN [values EXCEPT ![rank][n] = set_node_sign_or_score(input.kind, @, signOrScore)]
    ELSE values

\* the count of the calls of set_node_sign_or_score after one more on a node of a rank
CountedOnRank(input, counts, rank, n) ==
  IF find_subelement_node(input, rank, n)
    THEN [counts EXCEPT ![rank][n] = @ + 1]
    ELSE counts

\* the count after an element has set what it sets
CountedForElem(input, counts, elem) ==
  LET first == IF elem.value[1] = {} THEN counts
               ELSE CountedOnRank(input, counts, elem.rank, 1)
  IN  IF elem.value[2] = {} THEN first ELSE CountedOnRank(input, first, elem.rank, 2)

\* Mesh_Element::determine_node_signs / determine_node_scores on the nodes of one
\* element, one node after the other
determine_node_signs_or_scores(input, values, elem) ==
  LET first == IF elem.value[1] = {} THEN values
               ELSE SetOnRank(input, values, elem.rank, 1, CHOOSE v \in elem.value[1] : TRUE)
  IN  IF elem.value[2] = {} THEN first
      ELSE SetOnRank(input, first, elem.rank, 2, CHOOSE v \in elem.value[2] : TRUE)

\* gather_constrained_node_ancestries_and_sign_or_score on one rank
gather_constrained_node_ancestries_and_sign_or_score(input, values, rank) ==
  {[from |-> rank, node |-> Partner(n), value |-> values[rank][n]] :
     n \in {m \in input.present[rank] :
              input.periodic /\ node_sign_or_score_is_set(input.kind, values[rank][m])}}

\* determine_owning_procs_of_nodes_in_ancestries
determine_owning_procs_of_nodes_in_ancestries(input, n) == {input.owner[n]}

\* a variant of gather_shared_node_ancestries_and_sign_or_score that also takes the
\* nodes whose value is not set
gather_shared_node_ancestries_and_sign_or_score_unguarded(input, values, rank) ==
  {[from |-> rank, node |-> n, value |-> values[rank][n]] :
     n \in {m \in input.present[rank] : is_shared(input, m)}}

\* gather_shared_node_ancestries_and_sign_or_score on one rank
gather_shared_node_ancestries_and_sign_or_score(input, values, rank) ==
  {[from |-> rank, node |-> n, value |-> values[rank][n]] :
     n \in {m \in input.present[rank] :
              node_sign_or_score_is_set(input.kind, values[rank][m]) /\ is_shared(input, m)}}

\* determine_sharing_procs_of_nodes_in_ancestries
determine_sharing_procs_of_nodes_in_ancestries(input, n) ==
  {r \in Ranks : n \in input.present[r]}

\* pack_node_data_for_node_ancestries : an entry for every destination but oneself
pack_node_data_for_node_ancestries(entries, destinationProcs) ==
  {m \in {[to |-> to, from |-> e.from, node |-> e.node, value |-> e.value] :
            e \in entries, to \in Ranks} :
     m.to # m.from /\ m.to \in destinationProcs[m.node]}

\* the gathered entries of all ranks
ConstrainedEntries(input, values) ==
  UNION {gather_constrained_node_ancestries_and_sign_or_score(input, values, r) : r \in Ranks}

SharedEntries(input, values) ==
  UNION {gather_shared_node_ancestries_and_sign_or_score(input, values, r) : r \in Ranks}

\* elem->determine_node_signs(*this, interface) / elem->determine_node_scores for one
\* of the elements, in any order
ElemDetermineNodeSignsOrScores ==
  /\ sync_pc = "elements"
  /\ \E elem \in sync_input.elems \ processed :
       /\ node_value' = determine_node_signs_or_scores(sync_input, node_value, elem)
       /\ write_count' = CountedForElem(sync_input, write_count, elem)
       /\ processed' = processed \cup {elem}
  /\ UNCHANGED <<sync_input, sync_pc, pending_local, in_flight>>
  /\ UNCHANGED <<commVars, meshVars, nodeVars, modifyVars, prolongVars, roundVars, decomposeVars, parallelVars, sideCheckVars>>

\* sync_node_sign_or_score_on_constrained_nodes up to the exchange: nothing when
\* the periodic map is empty on all ranks, else the entries are gathered on each
\* rank, those for this rank kept and those for the owners packed
SyncConstrainedGather ==
  /\ sync_pc = "elements"
  /\ processed = sync_input.elems
  /\ LET entries == ConstrainedEntries(sync_input, node_value)
         owners == [n \in SyncNodes |->
                      determine_owning_procs_of_nodes_in_ancestries(sync_input, n)]
     IN  /\ pending_local' = {e \in entries : e.from \in owners[e.node]}
         /\ in_flight' = pack_node_data_for_node_ancestries(entries, owners)
  /\ sync_pc' = "constrained"
  /\ UNCHANGED <<sync_input, node_value, processed, write_count>>
  /\ UNCHANGED <<commVars, meshVars, nodeVars, modifyVars, prolongVars, roundVars, decomposeVars, parallelVars, sideCheckVars>>

\* sync_node_sign_or_score_on_local_constrained_nodes, one entry
SyncLocalConstrainedNode ==
  /\ sync_pc = "constrained"
  /\ \E e \in pending_local :
       /\ node_value' = SetOnRank(sync_input, node_value, e.from, e.node, e.value)
       /\ write_count' = CountedOnRank(sync_input, write_count, e.from, e.node)
       /\ pending_local' = pending_local \ {e}
  /\ UNCHANGED <<sync_input, sync_pc, processed, in_flight>>
  /\ UNCHANGED <<commVars, meshVars, nodeVars, modifyVars, prolongVars, roundVars, decomposeVars, parallelVars, sideCheckVars>>

\* receive_node_sign_or_score, one entry of a receive buffer, in any order of arrival
ReceiveNodeSignOrScore ==
  /\ sync_pc \in {"constrained", "shared"}
  /\ \E m \in in_flight :
       /\ \A e \in pending_local : e.from # m.to
       /\ node_value' = SetOnRank(sync_input, node_value, m.to, m.node, m.value)
       /\ write_count' = CountedOnRank(sync_input, write_count, m.to, m.node)
       /\ in_flight' = in_flight \ {m}
  /\ UNCHANGED <<sync_input, sync_pc, processed, pending_local>>
  /\ UNCHANGED <<commVars, meshVars, nodeVars, modifyVars, prolongVars, roundVars, decomposeVars, parallelVars, sideCheckVars>>

\* sync_node_sign_or_score_on_shared_nodes up to the exchange
SyncSharedGather ==
  /\ sync_pc = "constrained"
  /\ pending_local = {} /\ in_flight = {}
  /\ LET sharers == [n \in SyncNodes |->
                       determine_sharing_procs_of_nodes_in_ancestries(sync_input, n)]
     IN  in_flight' = pack_node_data_for_node_ancestries(
                        SharedEntries(sync_input, node_value), sharers)
  /\ sync_pc' = "shared"
  /\ UNCHANGED <<sync_input, node_value, processed, pending_local, write_count>>
  /\ UNCHANGED <<commVars, meshVars, nodeVars, modifyVars, prolongVars, roundVars, decomposeVars, parallelVars, sideCheckVars>>

\* determine_node_signs / determine_node_scores returns
SyncReturn ==
  /\ sync_pc = "shared"
  /\ in_flight = {}
  /\ sync_pc' = "done"
  /\ UNCHANGED <<sync_input, node_value, processed, pending_local, in_flight, write_count>>
  /\ UNCHANGED <<commVars, meshVars, nodeVars, modifyVars, prolongVars, roundVars, decomposeVars, parallelVars, sideCheckVars>>

NextSync ==
  \/ ElemDetermineNodeSignsOrScores
  \/ SyncConstrainedGather
  \/ SyncLocalConstrainedNode
  \/ ReceiveNodeSignOrScore
  \/ SyncSharedGather
  \/ SyncReturn

(***************************************************************************)
(* The sparse communication rounds on two ranks: the size pass, the data   *)
(* pass and the unpacking of communicate_prolongation_facet_fields, of the *)
(* sign and score synchronisation and of build_parallel_hanging_edge_nodes.*)
(***************************************************************************)
\* a variant of the hanging edge node packing that also packs for the rank itself
pack_shared_edge_nodes_to_all(me, shared_edge_nodes, sharing_procs) ==
  {m \in {[to |-> p, from |-> me, node |-> e] : e \in shared_edge_nodes, p \in Ranks} :
     m.to \in sharing_procs[m.node]}

\* build_parallel_hanging_edge_nodes : what one rank packs in one phase
pack_shared_edge_nodes(me, shared_edge_nodes, sharing_procs) ==
  {m \in {[to |-> p, from |-> me, node |-> e] : e \in shared_edge_nodes, p \in Ranks} :
     m.to \in sharing_procs[m.node] /\ m.to # me}

\* communicate_prolongation_facet_fields : what one rank packs in one pass, the
\* field sets of its tree map for every other rank
pack_facet_fields(me, tree_fields) ==
  {[to |-> p, from |-> me, fields |-> tree_fields] : p \in Ranks \ {me}}

\* build_parallel_hanging_edge_nodes : the edge nodes of a rank whose parents are
\* shared (SubElementChildNodeAncestry::is_shared), which is that another rank has
\* both parents
shared_edge_nodes(input, me) == {e \in input.data[me] : input.procs[e] \ {me} # {}}

\* what all ranks pack in one pass of a round
PackedInPass(input) ==
  IF input.kind = "facet_fields"
    THEN UNION {pack_facet_fields(r, input.data[r]) : r \in Ranks}
  ELSE IF input.kind = "sign_or_score"
    THEN pack_node_data_for_node_ancestries(
           {e \in {[from |-> r, node |-> n, value |-> 1] : r \in Ranks, n \in SyncNodes} :
              e.node \in input.data[e.from]},
           input.procs)
  ELSE UNION {pack_shared_edge_nodes(r, shared_edge_nodes(input, r), input.procs) : r \in Ranks}

\* SubElementChildNodeAncestry::build_missing_child_nodes : the rank has the edge
\* node of the ancestry afterwards
build_missing_child_nodes(nodes, ancestry) == nodes \cup {ancestry}

\* a variant of the unpacking that reads one ancestry of each receive buffer only
unpack_shared_child_nodes_once(me, sent, nodes) ==
  LET recv(i) == {m.node : m \in {x \in sent : x.to = me /\ x.from = i}}
  IN  nodes \cup UNION {build_missing_child_nodes(nodes, a) :
                         a \in {b \in UNION {recv(i) : i \in Ranks \ {me}} :
                                  \A i \in Ranks \ {me} : \A c \in recv(i) : b <= c}}

\* build_parallel_hanging_edge_nodes, the unpacking on one rank: every ancestry in
\* the receive buffers of the other ranks is built when it is missing
unpack_shared_child_nodes(me, sent, nodes) ==
  LET recv(i) == {m.node : m \in {x \in sent : x.to = me /\ x.from = i}}
  IN  nodes \cup UNION {build_missing_child_nodes(nodes, a) :
                         a \in UNION {recv(i) : i \in Ranks \ {me}}}

\* pass 0: the send buffers are packed to find their sizes, then allocate_buffers()
RoundSizePass ==
  /\ round_pc = "start"
  /\ round_sized' = PackedInPass(round_input)
  /\ round_passes' = round_passes + 1
  /\ round_pc' = "allocated"
  /\ UNCHANGED <<round_input, round_sent, edge_nodes>>
  /\ UNCHANGED <<commVars, meshVars, nodeVars, modifyVars, prolongVars, syncVars, decomposeVars, parallelVars, sideCheckVars>>

\* pass 1: the send buffers are packed again, then communicate()
RoundDataPass ==
  /\ round_pc = "allocated"
  /\ round_sent' = PackedInPass(round_input)
  /\ round_passes' = round_passes + 1
  /\ round_pc' = "communicated"
  /\ UNCHANGED <<round_input, round_sized, edge_nodes>>
  /\ UNCHANGED <<commVars, meshVars, nodeVars, modifyVars, prolongVars, syncVars, decomposeVars, parallelVars, sideCheckVars>>

\* the receive buffers of the other ranks are unpacked
RoundUnpack ==
  /\ round_pc = "communicated"
  /\ round_pc' = "unpacked"
  /\ edge_nodes' = IF round_input.kind = "hanging_edge_nodes"
                     THEN [r \in Ranks |-> unpack_shared_child_nodes(r, round_sent, edge_nodes[r])]
                     ELSE edge_nodes
  /\ UNCHANGED <<round_input, round_sized, round_sent, round_passes>>
  /\ UNCHANGED <<commVars, meshVars, nodeVars, modifyVars, prolongVars, syncVars, decomposeVars, parallelVars, sideCheckVars>>

NextRound ==
  \/ RoundSizePass
  \/ RoundDataPass
  \/ RoundUnpack

(***************************************************************************)
(* The steps of one call of decompose_mesh from set_phase_of_uncut_elements *)
(* to the end of decompose, one after the other as the code makes them.    *)
(***************************************************************************)
InterfaceSteps ==
  <<"determine_node_signs", "decompose_edges", "determine_node_scores", "handle_hanging_children">>

\* a step of the call: the function, the interface it runs for (0 when for none),
\* the part of the function and the element it runs on (0 when on none)
Event(interface, step, part, elem) ==
  [interface |-> interface, step |-> step, part |-> part, elem |-> elem]

\* for (auto && elem : elements) of a function
ForAllElements(interface, step) ==
  [e \in 1..NumElems |-> Event(interface, step, "element", e)]

\* CDMesh::determine_node_signs : the signs are cleared, every element determines
\* them, then the two synchronisations
determine_node_signs(interface) ==
  <<Event(interface, "determine_node_signs", "clear", 0)>>
    \o ForAllElements(interface, "determine_node_signs")
    \o <<Event(interface, "determine_node_signs", "sync_on_constrained_nodes", 0),
         Event(interface, "determine_node_signs", "sync_on_shared_nodes", 0)>>

\* CDMesh::decompose_edges
decompose_edges(interface) == ForAllElements(interface, "decompose_edges")

\* CDMesh::determine_node_scores
determine_node_scores(interface) ==
  <<Event(interface, "determine_node_scores", "clear", 0)>>
    \o ForAllElements(interface, "determine_node_scores")
    \o <<Event(interface, "determine_node_scores", "sync_on_constrained_nodes", 0),
         Event(interface, "determine_node_scores", "sync_on_shared_nodes", 0)>>

\* CDMesh::handle_hanging_children
handle_hanging_children(interface) ==
  <<Event(interface, "handle_hanging_children", "build_parallel_hanging_edge_nodes", 0)>>
    \o ForAllElements(interface, "handle_hanging_children")

\* a variant of the body of the loop over the interfaces that determines the
\* scores before it decomposes the edges
decompose_interface_scores_first(interface) ==
  determine_node_signs(interface) \o determine_node_scores(interface)
    \o decompose_edges(interface) \o handle_hanging_children(interface)

\* CDMesh::decompose, the body of the loop over the active interfaces
decompose_interface(interface) ==
  determine_node_signs(interface) \o decompose_edges(interface)
    \o determine_node_scores(interface) \o handle_hanging_children(interface)

RECURSIVE decompose_interfaces(_, _)
decompose_interfaces(interface, last) ==
  IF interface > last THEN <<>>
  ELSE decompose_interface(interface) \o decompose_interfaces(interface + 1, last)

\* CDMesh::decompose
decompose_steps(input) ==
  decompose_interfaces(1, input.interfaces)
    \o ForAllElements(0, "build_quadratic_subelements")
    \o ForAllElements(0, "determine_decomposed_elem_phase")

\* decompose_mesh : set_phase_of_uncut_elements, triangulate, decompose
decompose_mesh_steps(input) ==
  <<Event(0, "set_phase_of_uncut_elements", "all", 0), Event(0, "triangulate", "all", 0)>>
    \o decompose_steps(input)

\* the step to make next
NextEvent == decompose_mesh_steps(decompose_input)[decompose_at + 1]

HasNextEvent == decompose_at < Len(decompose_mesh_steps(decompose_input))

\* the_new_mesh->set_phase_of_uncut_elements(interfaceGeometry)
SetPhaseOfUncutElements ==
  /\ HasNextEvent
  /\ NextEvent.step = "set_phase_of_uncut_elements"
  /\ elem_phase_from' = [e \in Elems |-> IF e \in decompose_input.uncut
                                          THEN "set_phase_of_uncut_elements"
                                          ELSE elem_phase_from[e]]
  /\ decompose_at' = decompose_at + 1
  /\ UNCHANGED decompose_input
  /\ UNCHANGED <<commVars, meshVars, nodeVars, modifyVars, prolongVars, syncVars, roundVars, parallelVars, sideCheckVars>>

\* the_new_mesh->triangulate(interfaceGeometry)
Triangulate ==
  /\ HasNextEvent
  /\ NextEvent.step = "triangulate"
  /\ decompose_at' = decompose_at + 1
  /\ UNCHANGED <<decompose_input, elem_phase_from>>
  /\ UNCHANGED <<commVars, meshVars, nodeVars, modifyVars, prolongVars, syncVars, roundVars, parallelVars, sideCheckVars>>

\* one part of determine_node_signs(interface)
DetermineNodeSigns ==
  /\ HasNextEvent
  /\ NextEvent.step = "determine_node_signs"
  /\ decompose_at' = decompose_at + 1
  /\ UNCHANGED <<decompose_input, elem_phase_from>>
  /\ UNCHANGED <<commVars, meshVars, nodeVars, modifyVars, prolongVars, syncVars, roundVars, parallelVars, sideCheckVars>>

\* decompose_edges(interface) on one element
DecomposeEdges ==
  /\ HasNextEvent
  /\ NextEvent.step = "decompose_edges"
  /\ decompose_at' = decompose_at + 1
  /\ UNCHANGED <<decompose_input, elem_phase_from>>
  /\ UNCHANGED <<commVars, meshVars, nodeVars, modifyVars, prolongVars, syncVars, roundVars, parallelVars, sideCheckVars>>

\* one part of determine_node_scores(interface)
DetermineNodeScores ==
  /\ HasNextEvent
  /\ NextEvent.step = "determine_node_scores"
  /\ decompose_at' = decompose_at + 1
  /\ UNCHANGED <<decompose_input, elem_phase_from>>
  /\ UNCHANGED <<commVars, meshVars, nodeVars, modifyVars, prolongVars, syncVars, roundVars, parallelVars, sideCheckVars>>

\* one part of handle_hanging_children(interface)
HandleHangingChildren ==
  /\ HasNextEvent
  /\ NextEvent.step = "handle_hanging_children"
  /\ decompose_at' = decompose_at + 1
  /\ UNCHANGED <<decompose_input, elem_phase_from>>
  /\ UNCHANGED <<commVars, meshVars, nodeVars, modifyVars, prolongVars, syncVars, roundVars, parallelVars, sideCheckVars>>

\* elem->build_quadratic_subelements(*this) on one element
BuildQuadraticSubelements ==
  /\ HasNextEvent
  /\ NextEvent.step = "build_quadratic_subelements"
  /\ decompose_at' = decompose_at + 1
  /\ UNCHANGED <<decompose_input, elem_phase_from>>
  /\ UNCHANGED <<commVars, meshVars, nodeVars, modifyVars, prolongVars, syncVars, roundVars, parallelVars, sideCheckVars>>

\* elem->determine_decomposed_elem_phase(surfaceIDs) on one element: the phases of
\* its sub-elements; an element without sub-elements keeps the phase it has
DetermineDecomposedElemPhase ==
  /\ HasNextEvent
  /\ NextEvent.step = "determine_decomposed_elem_phase"
  /\ elem_phase_from' =
       IF NextEvent.elem \in decompose_input.uncut THEN elem_phase_from
       ELSE [elem_phase_from EXCEPT ![NextEvent.elem] = "determine_decomposed_elem_phase"]
  /\ decompose_at' = decompose_at + 1
  /\ UNCHANGED decompose_input
  /\ UNCHANGED <<commVars, meshVars, nodeVars, modifyVars, prolongVars, syncVars, roundVars, parallelVars, sideCheckVars>>

NextDecompose ==
  \/ SetPhaseOfUncutElements
  \/ Triangulate
  \/ DetermineNodeSigns
  \/ DecomposeEdges
  \/ DetermineNodeScores
  \/ HandleHangingChildren
  \/ BuildQuadraticSubelements
  \/ DetermineDecomposedElemPhase

(***************************************************************************)
(* modify_mesh on several ranks: the decision to modify the mesh           *)
(***************************************************************************)
\* what a rank gives to the reduction: some element of its own is not set and
\* correct, or some old child element of its own is unused
local_modification_needed(input, r) == ~input.all_set[r] \/ input.unused[r]

\* a variant of stk::is_true_on_any_proc that looks at the calling rank alone
is_true_on_this_proc(inputs, r) == inputs[r]

\* stk::is_true_on_any_proc : the same value on every rank, true when the
\* argument is true on some rank
is_true_on_any_proc(inputs, r) == \E q \in Ranks : inputs[q]

AllReduced == DOMAIN reduce_inputs = Ranks

\* the first operand of || : with a positive refinement level the mesh is
\* modified and the reduction is not evaluated; otherwise the rank enters the
\* reduction with its own value
ModifyMeshDecide(r) ==
  /\ rank_pc # <<>>
  /\ rank_pc[r] = "entered"
  /\ IF rank_input.level > 0
       THEN /\ rank_needed' = (r :> TRUE) @@ rank_needed
            /\ rank_pc' = [rank_pc EXCEPT ![r] = "first_modification"]
            /\ UNCHANGED reduce_inputs
       ELSE /\ reduce_inputs' =
                 (r :> local_modification_needed(rank_input, r)) @@ reduce_inputs
            /\ rank_pc' = [rank_pc EXCEPT ![r] = "reducing"]
            /\ UNCHANGED rank_needed
  /\ UNCHANGED <<rank_input, rank_transactions, rank_returned>>
  /\ UNCHANGED <<commVars, meshVars, nodeVars, modifyVars, prolongVars, syncVars, roundVars, decomposeVars, sideCheckVars>>

\* the reduction gives its value when every rank has entered it; a rank whose
\* mesh needs no modification returns false
IsTrueOnAnyProc(r) ==
  /\ rank_pc # <<>>
  /\ rank_pc[r] = "reducing"
  /\ AllReduced
  /\ rank_needed' = (r :> is_true_on_any_proc(reduce_inputs, r)) @@ rank_needed
  /\ IF is_true_on_any_proc(reduce_inputs, r)
       THEN /\ rank_pc' = [rank_pc EXCEPT ![r] = "first_modification"]
            /\ UNCHANGED rank_returned
       ELSE /\ rank_pc' = [rank_pc EXCEPT ![r] = "returned"]
            /\ rank_returned' = (r :> FALSE) @@ rank_returned
  /\ UNCHANGED <<rank_input, reduce_inputs, rank_transactions>>
  /\ UNCHANGED <<commVars, meshVars, nodeVars, modifyVars, prolongVars, syncVars, roundVars, decomposeVars, sideCheckVars>>

\* modification_begin ... modification_end around the creation and the deletion
\* of entities
FirstModification(r) ==
  /\ rank_pc # <<>>
  /\ rank_pc[r] = "first_modification"
  /\ rank_transactions' = [rank_transactions EXCEPT ![r] = @ + 1]
  /\ rank_pc' = [rank_pc EXCEPT ![r] = "second_modification"]
  /\ UNCHANGED <<rank_input, reduce_inputs, rank_needed, rank_returned>>
  /\ UNCHANGED <<commVars, meshVars, nodeVars, modifyVars, prolongVars, syncVars, roundVars, decomposeVars, sideCheckVars>>

\* modification_begin ... modification_end around the update of the parts, and
\* the return of modificationIsNeeded
SecondModification(r) ==
  /\ rank_pc # <<>>
  /\ rank_pc[r] = "second_modification"
  /\ rank_transactions' = [rank_transactions EXCEPT ![r] = @ + 1]
  /\ rank_pc' = [rank_pc EXCEPT ![r] = "returned"]
  /\ rank_returned' = (r :> rank_needed[r]) @@ rank_returned
  /\ UNCHANGED <<rank_input, reduce_inputs, rank_needed>>
  /\ UNCHANGED <<commVars, meshVars, nodeVars, modifyVars, prolongVars, syncVars, roundVars, decomposeVars, sideCheckVars>>

RankInputs ==
  [level : RefinementLevels, all_set : [Ranks -> BOOLEAN], unused : [Ranks -> BOOLEAN]]

\* the next call of modify_mesh, entered by every rank once all have returned
\* from the call before
ModifyMeshOnAllRanks ==
  /\ rank_pc # <<>>
  /\ \A r \in Ranks : rank_pc[r] = "returned"
  /\ rank_input' \in RankInputs
  /\ rank_input'.level = rank_input.level
  /\ rank_pc' = [r \in Ranks |-> "entered"]
  /\ reduce_inputs' = <<>>
  /\ rank_needed' = <<>>
  /\ rank_transactions' = [r \in Ranks |-> 0]
  /\ rank_returned' = <<>>
  /\ UNCHANGED <<commVars, meshVars, nodeVars, modifyVars, prolongVars, syncVars, roundVars, decomposeVars, sideCheckVars>>

NextParallel ==
  \/ \E r \in Ranks : ModifyMeshDecide(r)
  \/ \E r \in Ranks : IsTrueOnAnyProc(r)
  \/ \E r \in Ranks : FirstModification(r)
  \/ \E r \in Ranks : SecondModification(r)
  \/ ModifyMeshOnAllRanks


(***************************************************************************)
(* check_element_side_parts(side_nodes), with the number of sides found    *)
(***************************************************************************)
\* the numbers of side entities get_entities_through_relations can give for the
\* nodes of a side: none, one, several
SideCounts == {0, 1, 2}

\* what the relations of the side nodes give: the conformal volume parts of the
\* active elements, the number of sides, and for sides[0], when there is one,
\* whether it is in all conformal side parts and whether it has an interface part
SideNodesInputs ==
  {i \in [parts : {T \in SUBSET ConformalVolumeParts : Cardinality(T) <= 3},
          nsides : SideCounts,
          member_all : BOOLEAN,
          interface : BOOLEAN] :
     i.nsides = 0 => (~i.member_all /\ ~i.interface)}

SideCheck(result, reads) == [result |-> result, reads_first_side |-> reads]

\* CDMesh::check_element_side_parts(side_nodes): the value returned ("undefined"
\* when sides[0] is read from the empty vector) and whether sides[0] is read
check_element_side_parts_of_side_nodes(input) ==
  IF input.parts = {} THEN SideCheck("true", FALSE)
  ELSE IF Cardinality(input.parts) > 2 THEN SideCheck("false", FALSE)
  ELSE IF TwoPhasesMeet(input.parts)
    THEN IF InterfacePartExpected(input.parts)
           THEN IF input.nsides # 1 THEN SideCheck("false", FALSE)
                ELSE IF ~input.member_all THEN SideCheck("false", TRUE)
                ELSE SideCheck("true", TRUE)
           ELSE SideCheck("true", FALSE)
    ELSE IF input.nsides > 1 THEN SideCheck("false", FALSE)
         ELSE IF input.nsides = 0 THEN SideCheck("undefined", TRUE)
         ELSE IF input.interface THEN SideCheck("false", TRUE)
         ELSE SideCheck("true", TRUE)

\* one call of check_element_side_parts(side_nodes)
CheckElementSidePartsOfSideNodes ==
  /\ side_nodes_pc = "called"
  /\ side_nodes_check' = check_element_side_parts_of_side_nodes(side_nodes_input)
  /\ side_nodes_pc' = IF side_nodes_check'.result = "undefined" THEN "undefined" ELSE "returned"
  /\ UNCHANGED side_nodes_input
  /\ UNCHANGED <<commVars, meshVars, nodeVars, modifyVars, prolongVars, syncVars, roundVars, decomposeVars, parallelVars>>

\* the loop of check_element_side_parts() goes on to the next side, whatever the
\* call has returned
NextSideNodes ==
  /\ side_nodes_pc = "returned"
  /\ side_nodes_input' \in SideNodesInputs
  /\ side_nodes_pc' = "called"
  /\ side_nodes_check' = <<>>
  /\ UNCHANGED <<commVars, meshVars, nodeVars, modifyVars, prolongVars, syncVars, roundVars, decomposeVars, parallelVars>>

NextSideCheck ==
  \/ CheckElementSidePartsOfSideNodes
  \/ NextSideNodes

(***************************************************************************)
(* The two specifications: the database alone, the decomposition alone    *)
(***************************************************************************)
\* the database after construction; no decomposition has been made
InitComm ==
  /\ m_comm_map = << >>
  /\ m_last_lookup = EndIt
  /\ m_comm_map_change_listener \in BOOLEAN
  /\ notifications = <<>>
  /\ op = Op("none", 0, 0, 0)
  /\ ret = FALSE
  /\ view = <<>>
  /\ the_new_mesh = NullMesh
  /\ bulk = BulkData(FALSE, FALSE)
  /\ my_cdfem_support = [interface_maximum_refinement_level |-> 0]
  /\ pc = "idle"
  /\ call = NoCall
  /\ mesh_modified = FALSE
  /\ status = 0
  /\ last_geometry = <<>>
  /\ managed_nodes = <<>>
  /\ midside_map = {}
  /\ created = {}
  /\ returned = <<>>
  /\ sides = <<>>
  /\ side_requests = {}
  /\ modify_pc = "idle"
  /\ modification_log = <<>>
  /\ automatic_aura = TRUE
  /\ assertions = TRUE
  /\ check_result = "none"
  /\ prolong_input = <<>>
  /\ prolong_pc = "idle"
  /\ proc_padding = 0
  /\ my_missing_remote_prolong_facets = FALSE
  /\ is_prolonged = FALSE
  /\ prolong_source = <<>>
  /\ failure_logged = FALSE
  /\ node_entity = 0
  /\ sync_input = <<>>
  /\ sync_pc = "idle"
  /\ node_value = <<>>
  /\ processed = {}
  /\ pending_local = {}
  /\ in_flight = {}
  /\ write_count = <<>>
  /\ round_input = <<>>
  /\ round_pc = "idle"
  /\ round_sized = {}
  /\ round_sent = {}
  /\ round_passes = 0
  /\ edge_nodes = <<>>
  /\ decompose_input = <<>>
  /\ decompose_at = 0
  /\ elem_phase_from = <<>>
  /\ rank_input = <<>>
  /\ rank_pc = <<>>
  /\ reduce_inputs = <<>>
  /\ rank_needed = <<>>
  /\ rank_transactions = <<>>
  /\ rank_returned = <<>>
  /\ side_nodes_input = <<>>
  /\ side_nodes_pc = "idle"
  /\ side_nodes_check = <<>>

\* a snapshot holding the nodes of the background mesh only
InitNodes ==
  /\ managed_nodes = [n \in MeshNodeIds |-> SubElementNode("mesh", {})]
  /\ midside_map = {}
  /\ created = {}
  /\ returned = <<>>
  /\ sides = <<>>
  /\ side_requests = {}
  /\ modify_pc = "idle"
  /\ modification_log = <<>>
  /\ automatic_aura = TRUE
  /\ assertions = TRUE
  /\ check_result = "none"
  /\ prolong_input = <<>>
  /\ prolong_pc = "idle"
  /\ proc_padding = 0
  /\ my_missing_remote_prolong_facets = FALSE
  /\ is_prolonged = FALSE
  /\ prolong_source = <<>>
  /\ failure_logged = FALSE
  /\ node_entity = 0
  /\ sync_input = <<>>
  /\ sync_pc = "idle"
  /\ node_value = <<>>
  /\ processed = {}
  /\ pending_local = {}
  /\ in_flight = {}
  /\ write_count = <<>>
  /\ round_input = <<>>
  /\ round_pc = "idle"
  /\ round_sized = {}
  /\ round_sent = {}
  /\ round_passes = 0
  /\ edge_nodes = <<>>
  /\ decompose_input = <<>>
  /\ decompose_at = 0
  /\ elem_phase_from = <<>>
  /\ rank_input = <<>>
  /\ rank_pc = <<>>
  /\ reduce_inputs = <<>>
  /\ rank_needed = <<>>
  /\ rank_transactions = <<>>
  /\ rank_returned = <<>>
  /\ side_nodes_input = <<>>
  /\ side_nodes_pc = "idle"
  /\ side_nodes_check = <<>>
  /\ m_comm_map = << >>
  /\ m_last_lookup = EndIt
  /\ m_comm_map_change_listener = FALSE
  /\ notifications = <<>>
  /\ op = Op("none", 0, 0, 0)
  /\ ret = FALSE
  /\ view = <<>>
  /\ the_new_mesh = NullMesh
  /\ bulk = BulkData(FALSE, FALSE)
  /\ my_cdfem_support = [interface_maximum_refinement_level |-> 0]
  /\ pc = "idle"
  /\ call = NoCall
  /\ mesh_modified = FALSE
  /\ status = 0
  /\ last_geometry = <<>>

\* a mesh database without side entities, before the first modify_mesh
InitModify ==
  /\ sides = [s \in SideIds |-> Side({}, FALSE, FALSE)]
  /\ side_requests = {}
  /\ modify_pc = "idle"
  /\ modification_log = <<>>
  /\ automatic_aura \in BOOLEAN
  /\ assertions \in BOOLEAN
  /\ check_result = "none"
  /\ prolong_input = <<>>
  /\ prolong_pc = "idle"
  /\ proc_padding = 0
  /\ my_missing_remote_prolong_facets = FALSE
  /\ is_prolonged = FALSE
  /\ prolong_source = <<>>
  /\ failure_logged = FALSE
  /\ node_entity = 0
  /\ sync_input = <<>>
  /\ sync_pc = "idle"
  /\ node_value = <<>>
  /\ processed = {}
  /\ pending_local = {}
  /\ in_flight = {}
  /\ write_count = <<>>
  /\ round_input = <<>>
  /\ round_pc = "idle"
  /\ round_sized = {}
  /\ round_sent = {}
  /\ round_passes = 0
  /\ edge_nodes = <<>>
  /\ decompose_input = <<>>
  /\ decompose_at = 0
  /\ elem_phase_from = <<>>
  /\ rank_input = <<>>
  /\ rank_pc = <<>>
  /\ reduce_inputs = <<>>
  /\ rank_needed = <<>>
  /\ rank_transactions = <<>>
  /\ rank_returned = <<>>
  /\ side_nodes_input = <<>>
  /\ side_nodes_pc = "idle"
  /\ side_nodes_check = <<>>
  /\ managed_nodes = <<>>
  /\ midside_map = {}
  /\ created = {}
  /\ returned = <<>>
  /\ m_comm_map = << >>
  /\ m_last_lookup = EndIt
  /\ m_comm_map_change_listener = FALSE
  /\ notifications = <<>>
  /\ op = Op("none", 0, 0, 0)
  /\ ret = FALSE
  /\ view = <<>>
  /\ the_new_mesh = NullMesh
  /\ bulk = BulkData(FALSE, FALSE)
  /\ my_cdfem_support = [interface_maximum_refinement_level |-> 0]
  /\ pc = "idle"
  /\ call = NoCall
  /\ mesh_modified = FALSE
  /\ status = 0
  /\ last_geometry = <<>>

\* the new snapshot is decomposed: a new node that is not prolonged and has the
\* entity it was built from or none yet, an old mesh with at most one facet on this
\* rank and one on another, and at most two stashed nodes
InitProlong ==
  /\ prolong_input \in
       {[parallel_size |-> p, stash_step_count |-> c, max_elem_size |-> 1,
         facets |-> lf \cup rf, node_map |-> n1 \cup n2, required_fields |-> q,
         mesh_displacement |-> m] :
          p \in {1, 2}, c \in {-1, 0},
          lf \in {{}} \cup {{f} : f \in LocalFacets},
          rf \in {{}} \cup {{f} : f \in RemoteFacets},
          n1 \in {{}} \cup {{n} : n \in StashedNodes(1)},
          n2 \in {{}} \cup {{n} : n \in StashedNodes(2)},
          q \in FieldSets, m \in 0..MaxDist}
  /\ prolong_input.parallel_size = 1 => \A f \in prolong_input.facets : ~f.remote
  /\ prolong_pc = "decomposed"
  /\ proc_padding = 0
  /\ my_missing_remote_prolong_facets = FALSE
  /\ is_prolonged = FALSE
  /\ prolong_source = <<>>
  /\ failure_logged = FALSE
  /\ node_entity \in {0, 1}
  /\ sync_input = <<>>
  /\ sync_pc = "idle"
  /\ node_value = <<>>
  /\ processed = {}
  /\ pending_local = {}
  /\ in_flight = {}
  /\ write_count = <<>>
  /\ round_input = <<>>
  /\ round_pc = "idle"
  /\ round_sized = {}
  /\ round_sent = {}
  /\ round_passes = 0
  /\ edge_nodes = <<>>
  /\ decompose_input = <<>>
  /\ decompose_at = 0
  /\ elem_phase_from = <<>>
  /\ rank_input = <<>>
  /\ rank_pc = <<>>
  /\ reduce_inputs = <<>>
  /\ rank_needed = <<>>
  /\ rank_transactions = <<>>
  /\ rank_returned = <<>>
  /\ side_nodes_input = <<>>
  /\ side_nodes_pc = "idle"
  /\ side_nodes_check = <<>>
  /\ sides = <<>>
  /\ side_requests = {}
  /\ modify_pc = "idle"
  /\ modification_log = <<>>
  /\ automatic_aura = TRUE
  /\ assertions = TRUE
  /\ check_result = "none"
  /\ managed_nodes = <<>>
  /\ midside_map = {}
  /\ created = {}
  /\ returned = <<>>
  /\ m_comm_map = << >>
  /\ m_last_lookup = EndIt
  /\ m_comm_map_change_listener = FALSE
  /\ notifications = <<>>
  /\ op = Op("none", 0, 0, 0)
  /\ ret = FALSE
  /\ view = <<>>
  /\ the_new_mesh = NullMesh
  /\ bulk = BulkData(FALSE, FALSE)
  /\ my_cdfem_support = [interface_maximum_refinement_level |-> 0]
  /\ pc = "idle"
  /\ call = NoCall
  /\ mesh_modified = FALSE
  /\ status = 0
  /\ last_geometry = <<>>

\* the nodes are cleared and no element has been visited: node 1 is on both ranks,
\* node 2 on rank 1 and possibly on rank 0; rank 0 has two elements and rank 1 one
InitSync ==
  /\ sync_input \in
       {[kind |-> k, periodic |-> per, present |-> [r \in Ranks |-> IF r = 0 THEN p0 ELSE {1, 2}],
         owner |-> [n \in SyncNodes |-> IF n = 1 THEN o1 ELSE o2],
         elems |-> {[rank |-> 0, id |-> 1,
                     value |-> [n \in SyncNodes |-> ElemValue(k, IF n = 1 THEN v1 ELSE w0)]],
                    [rank |-> 0, id |-> 2,
                     value |-> [n \in SyncNodes |-> ElemValue(k, IF n = 1 THEN v2 ELSE 0)]],
                    [rank |-> 1, id |-> 3,
                     value |-> [n \in SyncNodes |-> ElemValue(k, IF n = 1 THEN v3 ELSE w1)]]}] :
          k \in {"sign", "score"}, per \in BOOLEAN, p0 \in {{1}, {1, 2}},
          o1 \in Ranks, o2 \in Ranks,
          v1 \in 0..2, v2 \in 0..2, v3 \in 0..2, w0 \in 0..2, w1 \in 0..2}
  /\ \A e \in sync_input.elems : \A n \in SyncNodes :
       n \notin sync_input.present[e.rank] => e.value[n] = {}
  /\ \A n \in SyncNodes : n \in sync_input.present[sync_input.owner[n]]
  /\ sync_pc = "elements"
  /\ node_value = [r \in Ranks |-> [n \in SyncNodes |-> ClearedValue(sync_input.kind)]]
  /\ processed = {}
  /\ pending_local = {}
  /\ in_flight = {}
  /\ write_count = [r \in Ranks |-> [n \in SyncNodes |-> 0]]
  /\ round_input = <<>>
  /\ round_pc = "idle"
  /\ round_sized = {}
  /\ round_sent = {}
  /\ round_passes = 0
  /\ edge_nodes = <<>>
  /\ decompose_input = <<>>
  /\ decompose_at = 0
  /\ elem_phase_from = <<>>
  /\ rank_input = <<>>
  /\ rank_pc = <<>>
  /\ reduce_inputs = <<>>
  /\ rank_needed = <<>>
  /\ rank_transactions = <<>>
  /\ rank_returned = <<>>
  /\ side_nodes_input = <<>>
  /\ side_nodes_pc = "idle"
  /\ side_nodes_check = <<>>
  /\ prolong_input = <<>>
  /\ prolong_pc = "idle"
  /\ proc_padding = 0
  /\ my_missing_remote_prolong_facets = FALSE
  /\ is_prolonged = FALSE
  /\ prolong_source = <<>>
  /\ failure_logged = FALSE
  /\ node_entity = 0
  /\ sides = <<>>
  /\ side_requests = {}
  /\ modify_pc = "idle"
  /\ modification_log = <<>>
  /\ automatic_aura = TRUE
  /\ assertions = TRUE
  /\ check_result = "none"
  /\ managed_nodes = <<>>
  /\ midside_map = {}
  /\ created = {}
  /\ returned = <<>>
  /\ m_comm_map = << >>
  /\ m_last_lookup = EndIt
  /\ m_comm_map_change_listener = FALSE
  /\ notifications = <<>>
  /\ op = Op("none", 0, 0, 0)
  /\ ret = FALSE
  /\ view = <<>>
  /\ the_new_mesh = NullMesh
  /\ bulk = BulkData(FALSE, FALSE)
  /\ my_cdfem_support = [interface_maximum_refinement_level |-> 0]
  /\ pc = "idle"
  /\ call = NoCall
  /\ mesh_modified = FALSE
  /\ status = 0
  /\ last_geometry = <<>>

\* a round is about to begin: the field sets of each rank's tree map, or the nodes
\* each rank has a value or an edge node for, and the ranks to send each to
InitRound ==
  /\ round_input \in
       {[kind |-> "facet_fields", data |-> d, procs |-> [n \in SyncNodes |-> {}]] :
          d \in [Ranks -> SUBSET FieldSets]}
       \cup
       {[kind |-> k, data |-> d, procs |-> p] :
          k \in {"sign_or_score", "hanging_edge_nodes"},
          d \in [Ranks -> SUBSET SyncNodes], p \in [SyncNodes -> SUBSET Ranks]}
  /\ round_input.kind = "hanging_edge_nodes" =>
       \A r \in Ranks : \A e \in round_input.data[r] : r \in round_input.procs[e]
  /\ round_pc = "start"
  /\ round_sized = {}
  /\ round_sent = {}
  /\ round_passes = 0
  /\ edge_nodes = IF round_input.kind = "hanging_edge_nodes" THEN round_input.data
                  ELSE [r \in Ranks |-> {}]
  /\ decompose_input = <<>>
  /\ decompose_at = 0
  /\ elem_phase_from = <<>>
  /\ rank_input = <<>>
  /\ rank_pc = <<>>
  /\ reduce_inputs = <<>>
  /\ rank_needed = <<>>
  /\ rank_transactions = <<>>
  /\ rank_returned = <<>>
  /\ side_nodes_input = <<>>
  /\ side_nodes_pc = "idle"
  /\ side_nodes_check = <<>>
  /\ the_new_mesh = NullMesh
  /\ bulk = BulkData(FALSE, FALSE)
  /\ my_cdfem_support = [interface_maximum_refinement_level |-> 0]
  /\ pc = "idle"
  /\ call = NoCall
  /\ mesh_modified = FALSE
  /\ status = 0
  /\ last_geometry = <<>>
  /\ managed_nodes = <<>>
  /\ midside_map = {}
  /\ created = {}
  /\ returned = <<>>
  /\ sides = <<>>
  /\ side_requests = {}
  /\ modify_pc = "idle"
  /\ modification_log = <<>>
  /\ automatic_aura = TRUE
  /\ assertions = TRUE
  /\ check_result = "none"
  /\ prolong_input = <<>>
  /\ prolong_pc = "idle"
  /\ proc_padding = 0
  /\ my_missing_remote_prolong_facets = FALSE
  /\ is_prolonged = FALSE
  /\ prolong_source = <<>>
  /\ failure_logged = FALSE
  /\ node_entity = 0
  /\ sync_input = <<>>
  /\ sync_pc = "idle"
  /\ node_value = <<>>
  /\ processed = {}
  /\ pending_local = {}
  /\ in_flight = {}
  /\ write_count = <<>>
  /\ m_comm_map = << >>
  /\ m_last_lookup = EndIt
  /\ m_comm_map_change_listener = FALSE
  /\ notifications = <<>>
  /\ op = Op("none", 0, 0, 0)
  /\ ret = FALSE
  /\ view = <<>>

\* set_phase_of_uncut_elements is about to run: some interfaces are active and the
\* geometry lists some elements as uncut, all of them when no interface is active
InitDecompose ==
  /\ decompose_input \in
       {[interfaces |-> n, uncut |-> u] : n \in 0..MaxInterfaces, u \in SUBSET Elems}
  /\ decompose_input.interfaces = 0 => decompose_input.uncut = Elems
  /\ decompose_at = 0
  /\ elem_phase_from = [e \in Elems |-> "unset"]
  /\ rank_input = <<>>
  /\ rank_pc = <<>>
  /\ reduce_inputs = <<>>
  /\ rank_needed = <<>>
  /\ rank_transactions = <<>>
  /\ rank_returned = <<>>
  /\ side_nodes_input = <<>>
  /\ side_nodes_pc = "idle"
  /\ side_nodes_check = <<>>
  /\ round_input = <<>>
  /\ round_pc = "idle"
  /\ round_sized = {}
  /\ round_sent = {}
  /\ round_passes = 0
  /\ edge_nodes = <<>>
  /\ the_new_mesh = NullMesh
  /\ bulk = BulkData(FALSE, FALSE)
  /\ my_cdfem_support = [interface_maximum_refinement_level |-> 0]
  /\ pc = "idle"
  /\ call = NoCall
  /\ mesh_modified = FALSE
  /\ status = 0
  /\ last_geometry = <<>>
  /\ managed_nodes = <<>>
  /\ midside_map = {}
  /\ created = {}
  /\ returned = <<>>
  /\ sides = <<>>
  /\ side_requests = {}
  /\ modify_pc = "idle"
  /\ modification_log = <<>>
  /\ automatic_aura = TRUE
  /\ assertions = TRUE
  /\ check_result = "none"
  /\ prolong_input = <<>>
  /\ prolong_pc = "idle"
  /\ proc_padding = 0
  /\ my_missing_remote_prolong_facets = FALSE
  /\ is_prolonged = FALSE
  /\ prolong_source = <<>>
  /\ failure_logged = FALSE
  /\ node_entity = 0
  /\ sync_input = <<>>
  /\ sync_pc = "idle"
  /\ node_value = <<>>
  /\ processed = {}
  /\ pending_local = {}
  /\ in_flight = {}
  /\ write_count = <<>>
  /\ m_comm_map = << >>
  /\ m_last_lookup = EndIt
  /\ m_comm_map_change_listener = FALSE
  /\ notifications = <<>>
  /\ op = Op("none", 0, 0, 0)
  /\ ret = FALSE
  /\ view = <<>>

\* every rank enters modify_mesh; the refinement level is the same on all ranks,
\* what a rank finds in its own elements is its own
InitParallel ==
  /\ decompose_input = <<>>
  /\ decompose_at = 0
  /\ elem_phase_from = <<>>
  /\ rank_input \in RankInputs
  /\ rank_pc = [r \in Ranks |-> "entered"]
  /\ reduce_inputs = <<>>
  /\ rank_needed = <<>>
  /\ rank_transactions = [r \in Ranks |-> 0]
  /\ rank_returned = <<>>
  /\ side_nodes_input = <<>>
  /\ side_nodes_pc = "idle"
  /\ side_nodes_check = <<>>
  /\ round_input = <<>>
  /\ round_pc = "idle"
  /\ round_sized = {}
  /\ round_sent = {}
  /\ round_passes = 0
  /\ edge_nodes = <<>>
  /\ the_new_mesh = NullMesh
  /\ bulk = BulkData(FALSE, FALSE)
  /\ my_cdfem_support = [interface_maximum_refinement_level |-> 0]
  /\ pc = "idle"
  /\ call = NoCall
  /\ mesh_modified = FALSE
  /\ status = 0
  /\ last_geometry = <<>>
  /\ managed_nodes = <<>>
  /\ midside_map = {}
  /\ created = {}
  /\ returned = <<>>
  /\ sides = <<>>
  /\ side_requests = {}
  /\ modify_pc = "idle"
  /\ modification_log = <<>>
  /\ automatic_aura = TRUE
  /\ assertions = TRUE
  /\ check_result = "none"
  /\ prolong_input = <<>>
  /\ prolong_pc = "idle"
  /\ proc_padding = 0
  /\ my_missing_remote_prolong_facets = FALSE
  /\ is_prolonged = FALSE
  /\ prolong_source = <<>>
  /\ failure_logged = FALSE
  /\ node_entity = 0
  /\ sync_input = <<>>
  /\ sync_pc = "idle"
  /\ node_value = <<>>
  /\ processed = {}
  /\ pending_local = {}
  /\ in_flight = {}
  /\ write_count = <<>>
  /\ m_comm_map = << >>
  /\ m_last_lookup = EndIt
  /\ m_comm_map_change_listener = FALSE
  /\ notifications = <<>>
  /\ op = Op("none", 0, 0, 0)
  /\ ret = FALSE
  /\ view = <<>>

\* check_element_side_parts(side_nodes) is called for the nodes of a side
InitSideCheck ==
  /\ decompose_input = <<>>
  /\ decompose_at = 0
  /\ elem_phase_from = <<>>
  /\ rank_input = <<>>
  /\ rank_pc = <<>>
  /\ reduce_inputs = <<>>
  /\ rank_needed = <<>>
  /\ rank_transactions = <<>>
  /\ rank_returned = <<>>
  /\ side_nodes_input \in SideNodesInputs
  /\ side_nodes_pc = "called"
  /\ side_nodes_check = <<>>
  /\ round_input = <<>>
  /\ round_pc = "idle"
  /\ round_sized = {}
  /\ round_sent = {}
  /\ round_passes = 0
  /\ edge_nodes = <<>>
  /\ the_new_mesh = NullMesh
  /\ bulk = BulkData(FALSE, FALSE)
  /\ my_cdfem_support = [interface_maximum_refinement_level |-> 0]
  /\ pc = "idle"
  /\ call = NoCall
  /\ mesh_modified = FALSE
  /\ status = 0
  /\ last_geometry = <<>>
  /\ managed_nodes = <<>>
  /\ midside_map = {}
  /\ created = {}
  /\ returned = <<>>
  /\ sides = <<>>
  /\ side_requests = {}
  /\ modify_pc = "idle"
  /\ modification_log = <<>>
  /\ automatic_aura = TRUE
  /\ assertions = TRUE
  /\ check_result = "none"
  /\ prolong_input = <<>>
  /\ prolong_pc = "idle"
  /\ proc_padding = 0
  /\ my_missing_remote_prolong_facets = FALSE
  /\ is_prolonged = FALSE
  /\ prolong_source = <<>>
  /\ failure_logged = FALSE
  /\ node_entity = 0
  /\ sync_input = <<>>
  /\ sync_pc = "idle"
  /\ node_value = <<>>
  /\ processed = {}
  /\ pending_local = {}
  /\ in_flight = {}
  /\ write_count = <<>>
  /\ m_comm_map = << >>
  /\ m_last_lookup = EndIt
  /\ m_comm_map_change_listener = FALSE
  /\ notifications = <<>>
  /\ op = Op("none", 0, 0, 0)
  /\ ret = FALSE
  /\ view = <<>>

SpecComm == InitComm /\ [][NextComm]_vars

SpecMesh == InitMesh /\ [][NextMesh]_vars

SpecNodes == InitNodes /\ [][NextNodes]_vars

SpecModify == InitModify /\ [][NextModify]_vars

SpecProlong == InitProlong /\ [][NextProlong]_vars

SpecSync == InitSync /\ [][NextSync]_vars

SpecRound == InitRound /\ [][NextRound]_vars

SpecDecompose == InitDecompose /\ [][NextDecompose]_vars

SpecParallel == InitParallel /\ [][NextParallel]_vars

SpecSideCheck == InitSideCheck /\ [][NextSideCheck]_vars

\* prolongation() runs on: a loop that can go round goes round
SpecProlongFair == SpecProlong /\ WF_vars(NextProlong)



(***************************************************************************)
(* Properties of the database                                              *)
(***************************************************************************)
\* the argument of the last operation as an EntityCommInfo
OpInfo(o) == EntityCommInfo(o.ghost_id, o.proc)

\* the pair-vector of key, empty when the key has no record
VecOf(map, key) == IF key \in DOMAIN map THEN map[key].comm_map ELSE <<>>

InfoSet(vec) == {vec[i] : i \in 1..Len(vec)}

\* strictly increasing: sorted and free of duplicates
StrictlySorted(vec) == \A i \in 1..(Len(vec) - 1) : InfoLess(vec[i], vec[i + 1])

LookupOps == {"comm", "comm_ghosting", "shared_comm_info", "entity_comm"}

\* C1: no operation leaves in the map a record whose pair-vector it has just emptied:
\* a record that held pairs before a step either is gone after it or still holds pairs.
C1_EmptiedRecordIsErased ==
  [][\A k \in DOMAIN m_comm_map :
       (m_comm_map[k].comm_map # <<>> /\ k \in DOMAIN m_comm_map')
         => m_comm_map'[k].comm_map # <<>>]_commVars

\* an erase removed the last pair of a record, and the record is gone
C1_Witness ==
  /\ op.name \in {"erase_info", "erase_ghosting", "comm_clear_ghosting"}
  /\ ret
  /\ op.key \notin DOMAIN m_comm_map

\* C2: insert(key, info) leaves the key's vector strictly sorted (so duplicate free) and
\* holding info; it returns true exactly when info was not there before, adding just
\* info; when info was there it returns false and the vector is unchanged.
C2_InsertInfoSortedAndReportsNew ==
  [][op'.name = "insert_info" =>
       LET k   == op'.key
           v   == OpInfo(op')
           old == VecOf(m_comm_map, k)
       IN  /\ k \in DOMAIN m_comm_map'
           /\ StrictlySorted(m_comm_map'[k].comm_map)
           /\ InfoSet(m_comm_map'[k].comm_map) = InfoSet(old) \cup {v}
           /\ ret' = (v \notin InfoSet(old))
           /\ (v \in InfoSet(old) => m_comm_map'[k].comm_map = old)]_commVars

\* an insert that went between two entries, and an insert of a pair already there
C2_Witness ==
  /\ op.name = "insert_info"
  /\ op.key \in DOMAIN m_comm_map
  /\ LET vec == m_comm_map[op.key].comm_map
     IN  \/ (ret /\ Len(vec) = 3 /\ vec[2] = OpInfo(op))
         \/ (~ret /\ Len(vec) = 2 /\ vec[1] = OpInfo(op))

\* C3: for every record, isShared holds exactly when the vector has an entry of ghost_id 0
\* and isGhost exactly when it has an entry of ghost_id > 0.
C3_FlagsMatchVector ==
  \A k \in DOMAIN m_comm_map :
    /\ m_comm_map[k].isShared = (\E x \in InfoSet(m_comm_map[k].comm_map) : x.ghost_id = 0)
    /\ m_comm_map[k].isGhost = (\E x \in InfoSet(m_comm_map[k].comm_map) : x.ghost_id > 0)

\* an erase took the last sharing entry (or the last ghost entry) and left the record
C3_Witness ==
  /\ op.name \in {"erase_info", "erase_ghosting"}
  /\ ret
  /\ op.key \in DOMAIN m_comm_map
  /\ m_comm_map[op.key].isShared # m_comm_map[op.key].isGhost

\* C4: comm(key), comm(key, ghosting) and shared_comm_info(key) on a key without a record
\* return an empty view and leave the map as it was (no record created, none changed).
C4_LookupMissIsEmptyAndPure ==
  [][(op'.name \in {"comm", "comm_ghosting", "shared_comm_info"}
        /\ op'.key \notin DOMAIN m_comm_map)
       => (view' = <<>> /\ ~ret' /\ m_comm_map' = m_comm_map)]_commVars

\* a lookup missed while the cache pointed at the record of another key
C4_Witness ==
  /\ op.name \in {"comm", "comm_ghosting", "shared_comm_info"}
  /\ ~ret
  /\ op.key \notin DOMAIN m_comm_map
  /\ m_last_lookup # EndIt
  /\ Second(m_comm_map, m_last_lookup).comm_map # <<>>

\* what a lookup returns when it reads the map directly, without the cache
DirectView(map, o) ==
  LET vec == VecOf(map, o.key)
  IN  CASE o.name = "comm_ghosting" -> SelectSeq(vec, LAMBDA x : x.ghost_id = o.ghost_id)
        [] o.name = "shared_comm_info" -> SelectSeq(vec, LAMBDA x : x.ghost_id = 0)
        [] OTHER -> vec

\* C5: every lookup returns what a direct lookup of the key in the map returns (found or
\* not, and the same range), whatever the cache held, and changes no record.
C5_CacheIsTransparent ==
  [][op'.name \in LookupOps =>
       /\ ret' = (op'.key \in DOMAIN m_comm_map)
       /\ view' = DirectView(m_comm_map, op')
       /\ m_comm_map' = m_comm_map]_commVars

\* a lookup of a key whose record is gone, while other records are present and cached
C5_Witness ==
  /\ op.name \in LookupOps
  /\ ~ret
  /\ m_comm_map # << >>
  /\ m_last_lookup # EndIt

\* the entries erase(key, info) / erase(key, ghosting) removes, in vector order
RemovedBy(map, o) ==
  SelectSeq(VecOf(map, o.key),
            LAMBDA x : IF o.name = "erase_info" THEN x = OpInfo(o) ELSE x.ghost_id = o.ghost_id)

\* C6: with a listener registered, erase(key, info) and erase(key, ghosting) call
\* removedGhost(key, ghost_id, proc) for each entry removed and then removedKey(key) when
\* the record was deleted; when nothing is removed nothing is notified.
C6_ListenerToldOfRemovals ==
  [][(m_comm_map_change_listener /\ op'.name \in {"erase_info", "erase_ghosting"}) =>
       LET gone == RemovedBy(m_comm_map, op')
           deleted == op'.key \in DOMAIN m_comm_map /\ op'.key \notin DOMAIN m_comm_map'
       IN  /\ notifications' =
                [j \in 1..Len(gone) |-> removedGhost(op'.key, gone[j].ghost_id, gone[j].proc)]
                  \o (IF deleted THEN <<removedKey(op'.key)>> ELSE <<>>)
           /\ (gone = <<>> => notifications' = <<>>)
           /\ ret' = (gone # <<>>)]_commVars

\* erase(key, ghosting) removed two entries and with them the record
C6_Witness ==
  /\ m_comm_map_change_listener
  /\ op.name = "erase_ghosting"
  /\ Len(notifications) = 3
  /\ notifications[3] = removedKey(op.key)

(***************************************************************************)
(* Properties of the decomposition                                         *)
(***************************************************************************)
Level == my_cdfem_support.interface_maximum_refinement_level

\* a step that returns from decompose_mesh
DecomposeMeshReturns == pc = "modified" /\ pc' = "idle"

\* the old mesh behind a shared pointer to a snapshot
OldMeshOf(ptr) == IF ptr = NullMesh THEN NullMesh ELSE ptr[1].my_old_mesh

CutElements(mesh) == {e \in 1..Len(mesh.elements) : have_subelements(mesh.elements[e])}

\* C7: the status returned by decompose_mesh has no bit outside
\* COORDINATES_MAY_BE_MODIFIED | MESH_MODIFIED, its MESH_MODIFIED bit is set exactly
\* when modify_mesh reported that a modification was needed, and a call that
\* returns without the bit has left the mesh database as it found it.
C7_StatusReportsModification ==
  [][DecomposeMeshReturns =>
       /\ BitOr(status', BitOr(COORDINATES_MAY_BE_MODIFIED, MESH_MODIFIED))
            = BitOr(COORDINATES_MAY_BE_MODIFIED, MESH_MODIFIED)
       /\ HasBit(status', MESH_MODIFIED) = mesh_modified
       /\ (~HasBit(status', MESH_MODIFIED) => call.bulk_at_entry = <<bulk>>)]_vars

\* a decompose_mesh call has returned a status without MESH_MODIFIED
C7_Witness ==
  /\ pc = "idle"
  /\ status = COORDINATES_MAY_BE_MODIFIED
  /\ the_new_mesh # NullMesh

\* C8 as stated: a decompose_mesh call given the geometry of the previous call
\* returns a status without the MESH_MODIFIED bit.
C8_UnchangedGeometryNotModified ==
  [][(DecomposeMeshReturns /\ last_geometry = <<call.geometry>>)
       => ~HasBit(status', MESH_MODIFIED)]_vars

\* C8 (amended): a decompose_mesh call given the geometry of the previous call
\* returns a status without the MESH_MODIFIED bit when the interface maximum
\* refinement level is 0; with a positive level modify_mesh always reports a
\* modification and the bit is set.
C8_UnchangedGeometryNotModifiedWithoutRefinement ==
  [][(DecomposeMeshReturns /\ last_geometry = <<call.geometry>>)
       => (HasBit(status', MESH_MODIFIED) = (Level > 0))]_vars

\* a second call on the same, cutting, geometry has returned without MESH_MODIFIED
C8_Witness ==
  /\ pc = "idle"
  /\ Level = 0
  /\ status = COORDINATES_MAY_BE_MODIFIED
  /\ the_new_mesh # NullMesh
  /\ last_geometry # <<>>
  /\ CutElements(the_new_mesh[1]) # {}
  /\ \A e \in CutElements(the_new_mesh[1]) :
       \A j \in 1..Len(the_new_mesh[1].elements[e].subelements) :
         the_new_mesh[1].elements[e].subelements[j].entityId # 0

\* a step of decompose_mesh that creates the new current snapshot
SnapshotReplaced == pc = "idle" /\ pc' = "constructed"

\* the old mesh after the step is the object that was the old mesh before it
SameOldMesh ==
  /\ OldMeshOf(the_new_mesh) # NullMesh
  /\ OldMeshOf(the_new_mesh') # NullMesh
  /\ OldMeshOf(the_new_mesh')[1].id = OldMeshOf(the_new_mesh)[1].id

\* there is one current snapshot at most, and decompose_mesh makes a new object
\* the current one, whose old mesh is the snapshot it replaces
NewSnapshotReplacesCurrent ==
  /\ Len(the_new_mesh') <= 1
  /\ SnapshotReplaced =>
       /\ the_new_mesh' # NullMesh
       /\ the_new_mesh'[1].id \notin LiveMeshIds(the_new_mesh)
       /\ the_new_mesh # NullMesh =>
            /\ OldMeshOf(the_new_mesh') # NullMesh
            /\ OldMeshOf(the_new_mesh')[1].id = the_new_mesh[1].id
            /\ OldMeshOf(the_new_mesh')[1].nodes = the_new_mesh[1].nodes
            /\ OldMeshOf(the_new_mesh')[1].elements = the_new_mesh[1].elements

\* the elements without the prolongation data attached to them
WithoutProlongationData(elements) ==
  [e \in 1..Len(elements) |->
     [elements[e] EXCEPT
        !.prolongation_data = FALSE,
        !.subelements = [j \in 1..Len(@) |-> [@[j] EXCEPT !.prolongation_data = FALSE]]]]

\* C9 as stated: there is at most one current snapshot, each decompose_mesh call
\* creates a new snapshot object that replaces the current one, and the nodes
\* and elements of the replaced snapshot are the same after every later step.
C9_SupersededNeverMutated ==
  [][/\ NewSnapshotReplacesCurrent
     /\ SameOldMesh =>
          /\ OldMeshOf(the_new_mesh')[1].nodes = OldMeshOf(the_new_mesh)[1].nodes
          /\ OldMeshOf(the_new_mesh')[1].elements = OldMeshOf(the_new_mesh)[1].elements]_vars

\* C9 (amended): there is at most one current snapshot, each decompose_mesh call
\* creates a new snapshot object that replaces the current one, and the replaced
\* snapshot keeps its nodes, its elements, their sub-elements, phases and
\* entities; the one change made to its elements is the prolongation data that
\* build_and_stash_old_mesh attaches to them (stash_field_data).
C9_SupersededKeepsDecomposition ==
  [][/\ NewSnapshotReplacesCurrent
     /\ SameOldMesh =>
          /\ OldMeshOf(the_new_mesh')[1].nodes = OldMeshOf(the_new_mesh)[1].nodes
          /\ WithoutProlongationData(OldMeshOf(the_new_mesh')[1].elements)
               = WithoutProlongationData(OldMeshOf(the_new_mesh)[1].elements)
          /\ (OldMeshOf(the_new_mesh')[1].elements # OldMeshOf(the_new_mesh)[1].elements
                => (pc = "decomposed" /\ pc' = "stashed"))]_vars

\* a replaced snapshot with sub-elements has been stashed: its elements carry
\* prolongation data
C9_Witness ==
  /\ pc = "stashed"
  /\ Level = 0
  /\ OldMeshOf(the_new_mesh) # NullMesh
  /\ OldMeshOf(the_new_mesh)[1].my_stash_step_count >= 0
  /\ CutElements(OldMeshOf(the_new_mesh)[1]) # {}
  /\ \A e \in CutElements(OldMeshOf(the_new_mesh)[1]) :
       OldMeshOf(the_new_mesh)[1].elements[e].prolongation_data

\* C10: the nodes and elements of the current snapshot are empty from its
\* construction until generate_nonconformal_elements runs, and after clear() they
\* are empty again together with every container of the snapshot that refers
\* to nodes or elements.
C10_EmptyUntilGeneratedAndAfterClear ==
  /\ pc = "constructed" =>
       /\ the_new_mesh[1].nodes = <<>>
       /\ the_new_mesh[1].elements = <<>>
  /\ pc = "cleared" =>
       /\ the_new_mesh[1].nodes = <<>>
       /\ the_new_mesh[1].elements = <<>>
       /\ the_new_mesh[1].mesh_node_map = {}
       /\ the_new_mesh[1].child_elements = <<>>
       /\ the_new_mesh[1].my_prolong_node_map = {}
       /\ the_new_mesh[1].my_prolong_element_map = {}
       /\ the_new_mesh[1].my_midside_node_map = {}

(***************************************************************************)
(* Properties of node creation                                             *)
(***************************************************************************)
\* the nodes of the snapshot made by this rule from this parent set
NodesOf(node_vec, rule, parents) ==
  {i \in 1..Len(node_vec) : node_vec[i].rule = rule /\ node_vec[i].parents = parents}

\* C11: for each of the four node-creation operations, a request with the parent
\* set and rule of an earlier request on the same snapshot returns the node the
\* earlier request returned, and the snapshot never holds two nodes made by the
\* same rule from the same parent set.
C11_SameRequestSameNode ==
  /\ \A a \in created : \A b \in created :
       (a.rule = b.rule /\ a.parents = b.parents) => a.node = b.node
  /\ \A rule \in NodeRules : \A parents \in ParentSets(managed_nodes, rule) :
       Cardinality(NodesOf(managed_nodes, rule, parents)) <= 1

(***************************************************************************)
(* Properties of modify_mesh and of the side parts                         *)
(***************************************************************************)
\* the transactions in which this was done, in the log
TransactionsOf(log, what) == {log[i].transaction : i \in {j \in 1..Len(log) : log[j].what = what}}

\* the places of this in the log
PlacesOf(log, what) == {i \in 1..Len(log) : log[i].what = what}

\* modify_mesh has made two transactions, the second begun after the first ended
TwoTransactionsInOrder(log) ==
  /\ Begun(log) = 2
  /\ Ended(log) = 2
  /\ \A b \in PlacesOf(log, "modification_begin") : \A e \in PlacesOf(log, "modification_end") :
       (log[b].transaction = 2 /\ log[e].transaction = 1) => e < b

\* C12 as stated: a modify_mesh that modifies the mesh makes exactly two
\* transactions, the second begun after the first has ended; node, element and side
\* entities are created and unused old child elements destroyed in the first, node
\* activation and element side parts are updated in the second.
C12_SidesCreatedInFirstTransaction ==
  modify_pc = "ended" =>
    /\ TwoTransactionsInOrder(modification_log)
    /\ TransactionsOf(modification_log, "create_node_entities") = {1}
    /\ TransactionsOf(modification_log, "create_element_entities") = {1}
    /\ TransactionsOf(modification_log, "create_side_entities") = {1}
    /\ TransactionsOf(modification_log, "delete_unused_old_child_elements") = {1}
    /\ TransactionsOf(modification_log, "update_node_activation") = {2}
    /\ TransactionsOf(modification_log, "update_element_side_parts") = {2}

\* C12 (amended): a modify_mesh that modifies the mesh begins and ends exactly two
\* transactions itself, the second begun after the first has ended; node and
\* element entities are created, the missing sides are requested and unused old
\* child elements destroyed in the first; the side entities are created by
\* batch_create_sides after the first has ended and before the second begins; node
\* activation and element side parts are updated in the second.
C12_SidesCreatedBetweenTransactions ==
  modify_pc = "ended" =>
    /\ TwoTransactionsInOrder(modification_log)
    /\ TransactionsOf(modification_log, "create_node_entities") = {1}
    /\ TransactionsOf(modification_log, "create_element_entities") = {1}
    /\ TransactionsOf(modification_log, "request_sides") = {1}
    /\ TransactionsOf(modification_log, "delete_unused_old_child_elements") = {1}
    /\ TransactionsOf(modification_log, "create_side_entities") = {0}
    /\ \A c \in PlacesOf(modification_log, "create_side_entities") :
         /\ \E e \in PlacesOf(modification_log, "modification_end") :
              modification_log[e].transaction = 1 /\ e < c
         /\ \A b \in PlacesOf(modification_log, "modification_begin") :
              modification_log[b].transaction = 2 => c < b
    /\ TransactionsOf(modification_log, "update_node_activation") = {2}
    /\ TransactionsOf(modification_log, "update_element_side_parts") = {2}

\* a modify_mesh has gone through both transactions and has created a side entity
C12_Witness ==
  /\ modify_pc = "ended"
  /\ side_requests # {}
  /\ \E s \in side_requests : sides[s].entity

SidePartsAsExpected(side_vec) ==
  \A s \in 1..Len(side_vec) :
    /\ Cardinality(side_vec[s].touching) <= 2
    /\ InterfacePartExpected(side_vec[s].touching) =>
         (side_vec[s].entity /\ side_vec[s].interface)
    /\ (side_vec[s].touching # {} /\ ~TwoPhasesMeet(side_vec[s].touching) /\ side_vec[s].entity)
         => ~side_vec[s].interface

RepeatStep == prolong_pc = "measure" /\ prolong_pc' = "search"

\* a step in which the new node is searched a source
SearchStep == prolong_pc = "search" /\ prolong_pc' = "measure" /\ ~is_prolonged

\* the facets at hand in this round that carry the fields the node requires
MatchingFacets ==
  {f \in prolong_input.facets :
     /\ prolong_input.required_fields \subseteq f.fields
     /\ (~f.remote \/ 2 * f.dist <= proc_padding)}

\* a facet with the required fields lies on another rank, out of the padded box
RemoteFacetOutOfReach ==
  \E f \in prolong_input.facets :
    /\ prolong_input.required_fields \subseteq f.fields
    /\ f.remote /\ 2 * f.dist > proc_padding

\* the stashed nodes that carry the fields the node requires
MatchingNodes ==
  {n \in prolong_input.node_map : prolong_input.required_fields \subseteq n.fields}

\* x is one of S and none of S is nearer
IsNearestOf(x, S) == x \in S /\ \A y \in S : x.dist <= y.dist

\* C15: every round that decides to repeat the search strictly increases the
\* processor padding over the padding of the round before.
C15_RepeatIncreasesPadding ==
  [][RepeatStep => proc_padding' > proc_padding]_vars

\* C16: the padding loop always terminates: whatever facets are reported missing
\* and whatever displacement is measured, a round is reached after which the loop
\* is left.
C16_PaddingLoopTerminates == <>(prolong_pc = "finished")

\* C17 as stated: the source is the nearest facet among those with all required
\* fields, and whenever there is no such facet it is the nearest stashed node with
\* all required fields.
C17_NearestFacetElseNearestNode ==
  [][SearchStep =>
       IF MatchingFacets # {}
         THEN prolong_source' # <<>> /\ IsNearestOf(prolong_source'[1], MatchingFacets)
       ELSE IF MatchingNodes # {}
         THEN prolong_source' # <<>> /\ IsNearestOf(prolong_source'[1], MatchingNodes)
       ELSE prolong_source' = <<>>]_vars

\* C17: the source is the nearest facet among those with all required fields; when
\* there is none and a facet with the required fields is known on another rank only,
\* no node is tried, nothing is returned and the missing remote facet is flagged;
\* otherwise the source is the nearest stashed node with all required fields.
C17_NearestFacetElseNodeUnlessRemote ==
  [][SearchStep =>
       IF MatchingFacets # {}
         THEN prolong_source' # <<>> /\ IsNearestOf(prolong_source'[1], MatchingFacets)
       ELSE IF RemoteFacetOutOfReach
         THEN prolong_source' = <<>> /\ my_missing_remote_prolong_facets'
       ELSE IF MatchingNodes # {}
         THEN prolong_source' # <<>> /\ IsNearestOf(prolong_source'[1], MatchingNodes)
       ELSE prolong_source' = <<>>]_vars

\* the search passed over a facet without the required fields and fell back to a
\* stashed node
C17_Witness ==
  /\ prolong_pc = "measure"
  /\ prolong_source # <<>>
  /\ prolong_source[1] \in prolong_input.node_map
  /\ \E f \in prolong_input.facets : ~(prolong_input.required_fields \subseteq f.fields)
  /\ \E n \in prolong_input.node_map : n \notin MatchingNodes

\* C18 as stated: when the search returns nothing for the new node, the failure is
\* logged, the node stays un-prolonged, the run goes on and the failure asks for no
\* further round.
C18_FailureLoggedNotRetried ==
  [][(SearchStep /\ prolong_source' = <<>>) =>
       /\ failure_logged'
       /\ ~is_prolonged'
       /\ ~my_missing_remote_prolong_facets']_vars

\* C18: when the search returns nothing for the new node, the node stays
\* un-prolonged and the run goes on; the failure is logged and asks for no further
\* round unless a facet with the required fields is known on another rank only, in
\* which case nothing is logged and the missing remote facet is flagged; a node
\* left un-prolonged does not by itself make the loop go round again.
C18_FailureLoggedUnlessRemote ==
  /\ [][(SearchStep /\ prolong_source' = <<>>) =>
          /\ ~is_prolonged'
          /\ IF RemoteFacetOutOfReach
               THEN my_missing_remote_prolong_facets' /\ failure_logged' = failure_logged
               ELSE failure_logged' /\ ~my_missing_remote_prolong_facets']_vars
  /\ [][(/\ prolong_pc = "measure"
         /\ ~is_prolonged
         /\ ~my_missing_remote_prolong_facets
         /\ 2 * prolong_input.mesh_displacement <= proc_padding)
        => prolong_pc' = "finished"]_vars

\* the loop was left with the failure logged and the node un-prolonged, on a run
\* that repeats rounds
C18_Witness ==
  /\ prolong_pc = "finished"
  /\ failure_logged
  /\ ~is_prolonged
  /\ guess_and_check_proc_padding(prolong_input)


(***************************************************************************)
(* Properties of the synchronisation of node signs and scores.             *)
(***************************************************************************)
\* the values the elements of a rank set on a node
ValuesSetOn(rank, n) ==
  UNION {e.value[n] : e \in {x \in sync_input.elems : x.rank = rank}}

\* the nodes whose values the synchronisation brings together with those of n
LinkedTo(n) == IF sync_input.periodic THEN SyncNodes ELSE {n}

\* all values set anywhere on a node linked to n
ValuesSetOnLinked(n) == UNION {ValuesSetOn(r, m) : r \in Ranks, m \in LinkedTo(n)}

\* a sign or score made of a set of values without regard to any order: the sign
\* all values agree on and 0 when they differ, the least of the scores
Combined(kind, S) ==
  IF S = {} THEN ClearedValue(kind)
  ELSE IF kind = "sign" THEN (IF \E x \in S : \A y \in S : y = x
                                THEN CHOOSE x \in S : TRUE ELSE 0)
  ELSE CHOOSE x \in S : \A y \in S : x <= y

C21_TwoPassesSameContentNotToSelf ==
  /\ \A m \in round_sized \cup round_sent : m.to # m.from
  /\ round_pc = "allocated" => round_passes = 1 /\ round_sent = {}
  /\ round_pc \in {"communicated", "unpacked"} =>
       round_passes = 2 /\ round_sent = round_sized

\* a round is over in which both ranks had something for the other and one of them
\* was itself among the ranks to send to
C21_Witness ==
  /\ round_pc = "unpacked"
  /\ \A r \in Ranks : \E m \in round_sent : m.from = r
  /\ round_input.kind = "hanging_edge_nodes"
  /\ \E n \in round_input.data[0] : 0 \in round_input.procs[n]


(***************************************************************************)
(* Properties of the writes and reads of node signs and scores in a pass.  *)
(***************************************************************************)
\* C22 as stated: after being cleared at the start of the pass each node's sign or
\* score is set at most once on a rank, the writes of the constrained and shared
\* synchronisation included, and no value is read while not set.
C22_WrittenAtMostOnce ==
  /\ \A r \in Ranks : \A n \in SyncNodes : write_count[r][n] <= 1
  /\ \A e \in pending_local \cup in_flight :
       node_sign_or_score_is_set(sync_input.kind, e.value)

\* C22: every sign or score is cleared when the pass starts, a value is set on a
\* node only after that, possibly several times (by elements and by the constrained
\* and shared synchronisation), and the synchronisation reads no value that is not
\* set: every entry it keeps or packs carries a set value.
C22_ClearedThenSetAndReadOnlyWhenSet ==
  /\ (sync_pc = "elements" /\ processed = {}) =>
       \A r \in Ranks : \A n \in SyncNodes :
         /\ ~node_sign_or_score_is_set(sync_input.kind, node_value[r][n])
         /\ write_count[r][n] = 0
  /\ \A r \in Ranks : \A n \in SyncNodes :
       node_sign_or_score_is_set(sync_input.kind, node_value[r][n]) => write_count[r][n] >= 1
  /\ \A e \in pending_local \cup in_flight :
       node_sign_or_score_is_set(sync_input.kind, e.value)

\* the shared synchronisation is under way with a node that one rank has set and
\* the other has not, and a value has been set a second time on some node
C22_Witness ==
  /\ sync_pc = "shared"
  /\ \E n \in SyncNodes : \E r1 \in Ranks, r2 \in Ranks :
       /\ n \in sync_input.present[r1] \cap sync_input.present[r2]
       /\ \E m \in in_flight : m.node = n /\ m.from = r1 /\ m.to = r2
       /\ ~node_sign_or_score_is_set(sync_input.kind, node_value[r2][n])
  /\ \E r \in Ranks : \E n \in SyncNodes : write_count[r][n] >= 2


(***************************************************************************)
(* Properties of the transactions around structural changes.               *)
(***************************************************************************)
\* what changes the structure of the mesh database
StructuralChanges ==
  {"create_node_entities", "create_element_entities", "delete_unused_old_child_elements",
   "create_side_entities", "update_node_activation", "update_element_side_parts",
   "change_entity_parts", "destroy_entity"}

\* the entries before place i that begin, or end, a transaction of whomever
BeginsBefore(log, i) ==
  Cardinality({j \in 1..(i - 1) :
                 log[j].what \in {"modification_begin", "helper_modification_begin"}})

EndsBefore(log, i) ==
  Cardinality({j \in 1..(i - 1) :
                 log[j].what \in {"modification_end", "helper_modification_end"}})

UncutElements == DOMAIN get_phase_for_uncut_elements(call.geometry)

\* the nodes of a snapshot made for cutting element e
NodesMadeFor(mesh, e) ==
  {i \in 1..Len(mesh.nodes) :
     mesh.nodes[i].key \in {EdgeNodeKey(e), MidSideNodeKey(e, 1), MidSideNodeKey(e, 2)}}

\* C24: an element whose nodes are all on one side of the interface has, after the
\* decomposition, no sub-element, the phase the geometry gives for it and no node
\* made for it; after modify_mesh it is still one element of the database, not a
\* parent, in the part of that phase, and no node entity was created for it.
C24_UncutElementLeftWhole ==
  /\ pc \in {"decomposed", "stashed", "modified"} =>
       \A e \in UncutElements :
         /\ ~have_subelements(the_new_mesh[1].elements[e])
         /\ the_new_mesh[1].elements[e].phase = get_phase_for_uncut_elements(call.geometry)[e]
         /\ NodesMadeFor(the_new_mesh[1], e) = {}
  /\ pc = "modified" =>
       \A e \in UncutElements :
         /\ bulk.io_part[e] = the_new_mesh[1].elements[e].phase
         /\ ~bulk.parent[e]
         /\ ~\E x \in bulk.elems : x.parent = e

\* a decomposition that cut one element and left another whole has modified the mesh
C24_Witness ==
  /\ pc = "modified"
  /\ mesh_modified
  /\ UncutElements # {}
  /\ CutElements(the_new_mesh[1]) # {}


(***************************************************************************)
(* Properties of the entities of the sub-elements.                         *)
(***************************************************************************)
\* every sub-element of the first snapshot that has an entity has the same entity
\* in the second
KeepsEntities(before, after) ==
  \A e \in 1..Len(before.elements) :
    \A j \in 1..Len(before.elements[e].subelements) :
      (/\ before.elements[e].subelements[j].entityId # 0
       /\ e <= Len(after.elements)
       /\ j <= Len(after.elements[e].subelements))
        => after.elements[e].subelements[j].entityId
             = before.elements[e].subelements[j].entityId

\* the snapshot as modify_mesh finds it, as set_entities_for_existing_child_elements
\* leaves it and as create_element_and_side_entities leaves it
EntityStagesOfModifyMesh ==
  LET m1 == set_entities_for_identical_nodes(the_new_mesh[1], bulk)
      r2 == set_entities_for_existing_child_elements(m1, bulk)
      r3 == get_unused_old_child_elements(r2.mesh, bulk)
      r4 == create_node_entities(r3.mesh, bulk)
      r5 == create_element_and_side_entities(r4.mesh, r4.bulk, 1)
  IN  <<the_new_mesh[1], r2.mesh, r5.mesh>>

\* the snapshot under construction and the one it holds as its old mesh
Snapshots(new_mesh) ==
  IF new_mesh = NullMesh THEN {}
  ELSE {new_mesh[1]} \cup (IF new_mesh[1].my_old_mesh = NullMesh THEN {}
                           ELSE {new_mesh[1].my_old_mesh[1]})

LoopRepeats == prolong_pc = "measure" /\ prolong_pc' = "search"

\* C26 as stated: the node gets its entity once and keeps it, is prolonged only
\* when it has an entity, and once prolonged stays prolonged.
C26_NodeMovesOnlyForward ==
  [][/\ node_entity # 0 => node_entity' = node_entity
     /\ is_prolonged' => node_entity' # 0
     /\ is_prolonged => is_prolonged']_vars

\* C26: the node gets its entity once and keeps it and is prolonged only when it
\* has an entity; a prolonged node stays prolonged except in the step of the padding
\* loop that repeats the round, which lowers the flag, and that step is taken only
\* when the padding is guessed and checked; once prolongation() is through the
\* flag is not lowered any more.
C26_NodeMovesForwardButForRepeats ==
  [][/\ node_entity # 0 => node_entity' = node_entity
     /\ is_prolonged' => node_entity' # 0
     /\ (is_prolonged /\ ~is_prolonged') =>
          LoopRepeats /\ guess_and_check_proc_padding(prolong_input)
     /\ (~is_prolonged /\ is_prolonged') =>
          prolong_pc = "search" /\ prolong_pc' = "measure"]_vars

\* a node that had no entity was given one, was prolonged, lost the flag when the
\* round was repeated, and is prolonged again when prolongation() is through
C26_Witness ==
  /\ prolong_pc = "finished"
  /\ is_prolonged
  /\ node_entity # 0
  /\ proc_padding > 2 * 3 * prolong_input.max_elem_size


(***************************************************************************)
(* Properties of the hanging edge nodes.                                   *)
(***************************************************************************)
\* C27: when build_parallel_hanging_edge_nodes is through, an edge node that a
\* rank has and whose parents are shared is, under the same ancestry, on every
\* rank that shares both parents.
C27_SharedEdgeNodesOnAllSharers ==
  (round_pc = "unpacked" /\ round_input.kind = "hanging_edge_nodes") =>
    \A r \in Ranks : \A e \in edge_nodes[r] :
      e \in shared_edge_nodes(round_input, r) =>
        \A p \in round_input.procs[e] : e \in edge_nodes[p]

\* each rank was given an edge node by the other, rank 1 two of them
C27_Witness ==
  /\ round_pc = "unpacked"
  /\ round_input.kind = "hanging_edge_nodes"
  /\ round_input.data[0] = SyncNodes
  /\ round_input.data[1] = {}
  /\ edge_nodes[1] = SyncNodes


(***************************************************************************)
(* Properties of the prolongation data.                                    *)
(***************************************************************************)
\* my_prolong_node_map and my_prolong_element_map of a snapshot
ProlongationDataOf(mesh) == <<mesh.my_prolong_node_map, mesh.my_prolong_element_map>>

HasProlongationData(mesh) == ProlongationDataOf(mesh) # <<{}, {}>>

\* C28 as stated: between two decompositions no snapshot holds prolongation data.
C28_DiscardedAfterProlongation ==
  pc = "idle" => \A m \in Snapshots(the_new_mesh) : ~HasProlongationData(m)

\* C28: the snapshot under construction never holds prolongation data and its old
\* mesh has no old mesh of its own, so that what an earlier step stashed is gone
\* once the next snapshot is constructed; prolongation data comes to a snapshot in
\* build_and_stash_old_mesh only, and the return from prolongation leaves it where
\* it is.
C28_StashedOncePerStepKeptUntilNextStep ==
  /\ [](the_new_mesh # NullMesh =>
          /\ ~HasProlongationData(the_new_mesh[1])
          /\ the_new_mesh[1].my_old_mesh # NullMesh =>
               the_new_mesh[1].my_old_mesh[1].my_old_mesh = NullMesh)
  /\ [][/\ \A after \in Snapshots(the_new_mesh') :
             HasProlongationData(after) =>
               \/ pc = "decomposed" /\ pc' = "stashed"
               \/ \E before \in Snapshots(the_new_mesh) :
                    /\ before.id = after.id
                    /\ ProlongationDataOf(before) = ProlongationDataOf(after)
        /\ (pc = "modified" /\ pc' = "idle") => the_new_mesh' = the_new_mesh]_vars

\* a second snapshot is constructed: its old mesh is the snapshot of the step
\* before, which holds no prolongation data, and the old mesh of that step, which
\* held some, is gone
C28_Witness ==
  /\ pc = "constructed"
  /\ the_new_mesh[1].my_old_mesh # NullMesh
  /\ ~HasProlongationData(the_new_mesh[1].my_old_mesh[1])
  /\ CutElements(the_new_mesh[1].my_old_mesh[1]) # {}


(***************************************************************************)
(* Properties of the order of the steps of decompose.                      *)
(***************************************************************************)
\* the steps made so far
Executed == SubSeq(decompose_mesh_steps(decompose_input), 1, decompose_at)

\* a step of an interface comes before another in the order of the loop
StepBefore(i, k, j, l) == i < j \/ (i = j /\ k < l)

\* the k-th function of the loop body has run for interface i on every element,
\* with its synchronisations when it has some
StepFinished(i, k) ==
  /\ \A e \in Elems : \E a \in 1..decompose_at :
       Executed[a] = Event(i, InterfaceSteps[k], "element", e)
  /\ InterfaceSteps[k] \in {"determine_node_signs", "determine_node_scores"} =>
       \A part \in {"sync_on_constrained_nodes", "sync_on_shared_nodes"} :
         \E a \in 1..decompose_at : Executed[a] = Event(i, InterfaceSteps[k], part, 0)

AllInterfacesProcessed ==
  \A i \in 1..decompose_input.interfaces : \A k \in 1..4 : StepFinished(i, k)

\* no part of a function of the loop body runs before the functions that come
\* before it, for this interface and for the interfaces before, are finished
InterfaceStepsInOrder ==
  \A a \in 1..decompose_at : \A l \in 1..4 :
    (Executed[a].interface > 0 /\ Executed[a].step = InterfaceSteps[l]) =>
      \A i \in 1..decompose_input.interfaces : \A k \in 1..4 :
        StepBefore(i, k, Executed[a].interface, l) => StepFinished(i, k)

\* C29 as stated: the four functions run in order for each interface, each finished
\* before the next begins, and no phase is set before all interfaces are processed.
C29_FourStepsThenPhases ==
  /\ InterfaceStepsInOrder
  /\ (\E e \in Elems : elem_phase_from[e] # "unset") => AllInterfacesProcessed

\* C29: the four functions run in order for each interface, each finished before
\* the next begins; the phases of the sub-elements are set only after all
\* interfaces are processed, and the phase of an element the geometry lists as
\* uncut is set by set_phase_of_uncut_elements before the first interface.
C29_FourStepsThenSubElementPhases ==
  /\ InterfaceStepsInOrder
  /\ \A e \in Elems :
       /\ elem_phase_from[e] = "determine_decomposed_elem_phase" => AllInterfacesProcessed
       /\ elem_phase_from[e] = "set_phase_of_uncut_elements" => e \in decompose_input.uncut
       /\ (e \in decompose_input.uncut /\ decompose_at >= 1) =>
            elem_phase_from[e] = "set_phase_of_uncut_elements"

\* decompose is through for two interfaces, one element uncut and one cut
C29_Witness ==
  /\ ~HasNextEvent
  /\ decompose_input.interfaces = 2
  /\ \E e \in Elems : elem_phase_from[e] = "set_phase_of_uncut_elements"
  /\ \E e \in Elems : elem_phase_from[e] = "determine_decomposed_elem_phase"


C31_GenerateOnlyOnEmptySnapshot ==
  /\ pc \in {"constructed", "cleared"} =>
       ~generate_nonconformal_elements_aborts(the_new_mesh[1])
  /\ ~generate_nonconformal_elements_aborts(
        CDMesh(NewMeshId(LiveMeshIds(the_new_mesh)), the_new_mesh))
  /\ pc \in {"decomposed", "stashed", "modified"} =>
       generate_nonconformal_elements_aborts(the_new_mesh[1])

\* rebuild_after_rebalance has cleared a snapshot that a decomposition had filled
C31_Witness ==
  /\ pc = "cleared"
  /\ the_new_mesh[1].my_old_mesh # NullMesh
  /\ bulk.elems # {}


(***************************************************************************)
(* Properties of the number of snapshots alive.                            *)
(***************************************************************************)
\* the snapshots reached from a pointer through my_old_mesh
RECURSIVE ChainLength(_)
ChainLength(ptr) == IF ptr = NullMesh THEN 0 ELSE 1 + ChainLength(ptr[1].my_old_mesh)

\* C32: the current snapshot and the snapshots reached from it through my_old_mesh
\* are at most two; a snapshot constructed on top of the current one has it as its
\* old mesh, without the old mesh the current one had.
C32_AtMostTwoSnapshots ==
  /\ [](ChainLength(the_new_mesh) <= 2)
  /\ [][(pc = "idle" /\ pc' = "constructed" /\ the_new_mesh # NullMesh) =>
          /\ the_new_mesh'[1].my_old_mesh[1].id = the_new_mesh[1].id
          /\ the_new_mesh'[1].my_old_mesh[1].my_old_mesh = NullMesh
          /\ the_new_mesh'[1].id \notin LiveMeshIds(the_new_mesh)]_vars

\* after a decomposition that has returned, whose snapshot had an old mesh, the
\* next snapshot has been constructed on top of it
C32_Witness ==
  /\ pc = "constructed"
  /\ ChainLength(the_new_mesh) = 2
  /\ last_geometry # <<>>
  /\ status # 0
  /\ the_new_mesh[1].my_old_mesh[1].elements # <<>>


(***************************************************************************)
(* Properties of handle_possible_failed_time_step.                         *)
(***************************************************************************)
\* the snapshot is replaced for this step count: there is one, and it has no old
\* mesh or its old mesh was stashed at the step count
MustRestore(step_count) ==
  /\ the_new_mesh # NullMesh
  /\ \/ the_new_mesh[1].my_old_mesh = NullMesh
     \/ the_new_mesh[1].my_old_mesh[1].my_stash_step_count = step_count

\* C33: called between two decompositions with any step count,
\* handle_possible_failed_time_step gives a new snapshot, rebuilt from the mesh
\* database and without old mesh and stashed data, when there is a current
\* snapshot that has no old mesh or whose old mesh was stashed at the step count,
\* and in every other case leaves the current snapshot, its old mesh included, as
\* it is.
C33_RestoredExactlyWhenFailedOrNoOldMesh ==
  pc = "idle" =>
    \A step_count \in StepCounts :
      IF MustRestore(step_count)
        THEN /\ handle_possible_failed_time_step(the_new_mesh, bulk, step_count) # NullMesh
             /\ handle_possible_failed_time_step(the_new_mesh, bulk, step_count)[1].id
                  \notin LiveMeshIds(the_new_mesh)
             /\ handle_possible_failed_time_step(the_new_mesh, bulk, step_count)[1].my_old_mesh
                  = NullMesh
             /\ ~HasProlongationData(
                   handle_possible_failed_time_step(the_new_mesh, bulk, step_count)[1])
             /\ Len(handle_possible_failed_time_step(the_new_mesh, bulk, step_count)[1].elements)
                  = NumElems
        ELSE handle_possible_failed_time_step(the_new_mesh, bulk, step_count) = the_new_mesh

\* a snapshot without old mesh between two decompositions, as the function leaves
\* it, that restore_subelements has given back the sub-elements of the database
C33_Witness ==
  /\ pc = "idle"
  /\ the_new_mesh # NullMesh
  /\ the_new_mesh[1].my_old_mesh = NullMesh
  /\ CutElements(the_new_mesh[1]) # {}


(***************************************************************************)
(* Properties of modify_mesh on several ranks.                             *)
(***************************************************************************)
\* C34: in every call of modify_mesh the ranks that have computed
\* modificationIsNeeded have the same value, true when the refinement level is
\* positive or some rank has an element that is not set or an unused old child
\* element; a rank that has returned has entered both modification transactions
\* when the value is true and none when it is false, and has returned the value.
C34_SameDecisionOnEveryRank ==
  rank_pc # <<>> =>
    /\ \A r \in DOMAIN rank_needed :
         rank_needed[r] = (rank_input.level > 0
                            \/ \E q \in Ranks : local_modification_needed(rank_input, q))
    /\ \A r, q \in DOMAIN rank_needed : rank_needed[r] = rank_needed[q]
    /\ \A r \in Ranks :
         rank_pc[r] = "returned" =>
           /\ r \in DOMAIN rank_returned /\ r \in DOMAIN rank_needed
           /\ rank_returned[r] = rank_needed[r]
           /\ rank_transactions[r] = IF rank_needed[r] THEN 2 ELSE 0
    /\ \A r, q \in DOMAIN rank_returned : rank_returned[r] = rank_returned[q]

\* every rank has made both transactions and returned true, one of them with
\* nothing to modify in its own elements
C34_Witness ==
  /\ rank_pc # <<>>
  /\ rank_input.level = 0
  /\ \A r \in Ranks : rank_pc[r] = "returned" /\ rank_returned[r] /\ rank_transactions[r] = 2
  /\ \E r \in Ranks : ~local_modification_needed(rank_input, r)


(***************************************************************************)
(* Further properties of the database.                                     *)
(***************************************************************************)
RemovalOps == {"erase_info", "erase_ghosting", "comm_clear_ghosting", "comm_clear"}

\* the entries of the record of a key before a step that are not in it after
EntriesRemoved(key) ==
  SelectSeq(VecOf(m_comm_map, key),
            LAMBDA x : \A j \in 1..Len(VecOf(m_comm_map', key)) : VecOf(m_comm_map', key)[j] # x)

\* C35: with a listener registered, every entry that erase(key, info),
\* erase(key, ghosting), comm_clear_ghosting(key) or comm_clear(key) removes is
\* reported by a removedGhost(key, ghost_id, proc) that comes before the
\* removedKey(key) of the record.
C35_EveryRemovedGhostReported ==
  [][(m_comm_map_change_listener /\ op'.name \in RemovalOps) =>
       \A n \in 1..Len(EntriesRemoved(op'.key)) :
         \E j \in 1..Len(notifications') :
           /\ notifications'[j] = removedGhost(op'.key, EntriesRemoved(op'.key)[n].ghost_id,
                                               EntriesRemoved(op'.key)[n].proc)
           /\ \A i \in 1..j : notifications'[i] # removedKey(op'.key)]_commVars


\* C36: m_last_lookup is end() or the node of a record that is in the map: after
\* no operation is it the node of a record that was erased.
C36_CacheNeverDangles ==
  /\ m_last_lookup # EndIt => \E k \in DOMAIN m_comm_map : m_last_lookup = {k}
  /\ (op.name \in RemovalOps /\ op.key \notin DOMAIN m_comm_map) => m_last_lookup # {op.key}

\* the cached record has just been erased with other records left, and the cache
\* is at the node map::erase returned
C36_Witness ==
  /\ op.name \in RemovalOps
  /\ ret
  /\ op.key \notin DOMAIN m_comm_map
  /\ m_last_lookup # EndIt
  /\ m_last_lookup \subseteq DOMAIN m_comm_map


\* C37: erase(key, info) and erase(key, ghosting) that find no record of the key,
\* or no such pair or no entry of the ghosting in the record, return false and
\* leave the map, with every record and its flags, as it was; erase(key, ghosting)
\* that finds entries of the ghosting returns true, leaves in the record of the
\* key the entries of the other ghostings in their order (no record when there is
\* none), and leaves every other record as it was.
C37_EraseMissChangesNothingAndGhostingEraseIsExact ==
  [][op'.name \in {"erase_info", "erase_ghosting"} =>
       /\ RemovedBy(m_comm_map, op') = <<>> => (~ret' /\ m_comm_map' = m_comm_map)
       /\ (op'.name = "erase_ghosting" /\ RemovedBy(m_comm_map, op') # <<>>) =>
            /\ ret'
            /\ VecOf(m_comm_map', op'.key) =
                 SelectSeq(VecOf(m_comm_map, op'.key), LAMBDA x : x.ghost_id # op'.ghost_id)
            /\ (op'.key \in DOMAIN m_comm_map') = (VecOf(m_comm_map', op'.key) # <<>>)
            /\ DOMAIN m_comm_map' \subseteq DOMAIN m_comm_map
            /\ \A k \in DOMAIN m_comm_map \ {op'.key} :
                 k \in DOMAIN m_comm_map' /\ m_comm_map'[k] = m_comm_map[k]]_commVars

\* erase(key, ghosting) has removed the entries of a ghosting from a record that
\* keeps two entries of the other ghosting
C37_Witness ==
  /\ op.name = "erase_ghosting"
  /\ ret
  /\ Len(VecOf(m_comm_map, op.key)) = 2
  /\ \A a \in 1..Len(VecOf(m_comm_map, op.key)) :
       VecOf(m_comm_map, op.key)[a].ghost_id # op.ghost_id


(***************************************************************************)
(* Further properties of the snapshots.                                    *)
(***************************************************************************)
\* C38: in rebuild_after_rebalance, after clear() and
\* generate_nonconformal_elements() the mesh-node map refers to nodes of the
\* snapshot only and my_midside_node_map has no entry whose nodes clear()
\* destroyed, and the restore_subelements that follows builds no sub-element on
\* a destroyed node.
C38_NoLookupRefersToDestroyedNode ==
  /\ pc = "cleared" =>
       /\ ~HasStaleEntries(generate_nonconformal_elements(the_new_mesh[1]))
       /\ \A n \in generate_nonconformal_elements(the_new_mesh[1]).mesh_node_map :
            FindNode(generate_nonconformal_elements(the_new_mesh[1]).nodes, MeshNodeKey(n)) # 0
  /\ pc # "undefined"


(***************************************************************************)
(* Properties of check_element_side_parts(side_nodes).                     *)
(***************************************************************************)
\* C39: for one or two conformal volume parts, of equal or of differing phases,
\* and for no, one or several sides found, check_element_side_parts(side_nodes)
\* reads sides[0] only when sides is not empty.
C39_FirstSideReadOnlyWhenPresent ==
  side_nodes_check # <<>> =>
    (side_nodes_check.reads_first_side => side_nodes_input.nsides > 0)


(***************************************************************************)
(* Properties of the calls of prolongation.                                *)
(***************************************************************************)
\* the step of decompose_mesh that runs the_new_mesh->prolongation()
ProlongationRuns == pc = "modified" /\ pc' = "idle" /\ call # NoCall /\ call' = NoCall

\* C40: prolongation() runs only on a snapshot that has an old mesh: it is reached
\* only through build_and_stash_old_mesh and modify_mesh, build_and_stash_old_mesh
\* leaves the snapshot with an old mesh whether or not it had one, and the old
\* mesh stays attached until prolongation() has run.
C40_ProlongationOnlyWithOldMesh ==
  /\ [][/\ ProlongationRuns =>
             /\ the_new_mesh # NullMesh
             /\ the_new_mesh[1].my_old_mesh # NullMesh
        /\ (pc' = "modified" /\ pc # "modified") => pc = "stashed"
        /\ (pc' = "stashed" /\ pc # "stashed") =>
             /\ pc = "decomposed"
             /\ the_new_mesh'[1].my_old_mesh # NullMesh
        /\ (pc = "stashed" /\ pc' = "modified") =>
             the_new_mesh'[1].my_old_mesh # NullMesh]_vars
  /\ [](pc \in {"stashed", "modified"} =>
          the_new_mesh # NullMesh /\ the_new_mesh[1].my_old_mesh # NullMesh)

\* the first decomposition: the snapshot was constructed without an old mesh and
\* prolongation is about to run
C40_Witness ==
  /\ pc = "modified"
  /\ call # NoCall
  /\ the_new_mesh[1].my_old_mesh # NullMesh
  /\ the_new_mesh[1].my_old_mesh[1].my_stash_step_count = -1
  /\ the_new_mesh[1].my_old_mesh[1].elements # <<>>


====
